---- MODULE Spec2Model ----
(***************************************************************************)
(* Model of the sistema graph execution engine (index.js, asyncstatus.js). *)
(*                                                                         *)
(* JavaScript runs one job at a time.  Every promise reaction (the code    *)
(* after an await, a then/catch callback) is a job of the microtask queue, *)
(* which is served first-in first-out: `queue`.  One action of the model   *)
(* is one job, or one call made by the user of the library (run, shutdown, *)
(* reset), or the settling of a user function (provider, dispose hook).    *)
(* The user's code and the settling of the promise of a user function are  *)
(* macrotasks: they act when the microtask queue is empty.                 *)
(***************************************************************************)
EXTENDS Integers, Sequences, FiniteSets, TLC

\* ---------------------------------------------------------------- bounds
MaxRuns == 2       \* calls of run()
MaxOps == 2        \* calls of Context.shutdown/reset and Dependency.shutdown/reset
MaxFails == 1      \* user functions (providers, dispose hooks) that throw
MaxPending == 1    \* user functions that return a promise still pending
MaxCalls == 3      \* calls of change() and get() on an AsyncStatus used alone
MaxUses == 3       \* calls of run(), shutdown() and reset() together, in the
                   \*   scenarios that let them overlap over two contexts

Runs == 1..MaxRuns
\* The operations: calls of shutdown()/reset(), up to MaxOps, or calls of
\* change()/get(), up to MaxCalls
Ops == 1..(IF MaxCalls > MaxOps THEN MaxCalls ELSE MaxOps)

\* ------------------------------------------------------------- constants
Nodes == {"a", "b", "c", "d"}
Contexts == {"X", "Y"}
NoContext == "none"

\* The keys of parameters: a string and a symbol
Names == {"greeting", "token"}
IsSymbol(id) == id = "token"

\* The ids of what run() resolves: a Dependency is its own id, a
\* ValueDependency has the key of its parameter
Ids == Nodes \cup Names

\* The key of params and of _cache that holds the id of the execution
EXECUTION_ID == "_id"

READY == "ready"
SHUTDOWN == "shutdown"
CHANGING == ""

\* Values carried by promises: the result of the k-th call of n's provider,
\* the error thrown by it, the error of a node that is shut down.
Value(n, k) == [t |-> "value", n |-> n, k |-> k]
ProviderError(n, k) == [t |-> "error", n |-> n, k |-> k]
ShutdownError == [t |-> "The dependency is now shutdown", n |-> "", k |-> 0]
MissingArgument(id) == [t |-> "Missing argument", n |-> id, k |-> 0]
SymbolToString ==
  [t |-> "Cannot convert a Symbol value to a string", n |-> "", k |-> 0]
Supplied(id) == [t |-> "supplied", n |-> id, k |-> 0]
Undefined == [t |-> "undefined", n |-> "", k |-> 0]
\* crypto.randomUUID() called by the r-th run: a value no other call gives
RandomUUID(r) == [t |-> "uuid", n |-> "", k |-> r]

\* The mark of a job queued by a call of the user, not by a job
User == [t |-> "user", n |-> "", k |-> 0]

\* A job of the microtask queue: kind, run or operation, node, and two operands
Job(k, i, n, x, v) == [k |-> k, i |-> i, n |-> n, x |-> x, v |-> v]

Range(s) == {s[i] : i \in DOMAIN s}

\* Set.prototype.add on an insertion-ordered Set
SetAdd(s, x) == IF x \in Range(s) THEN s ELSE Append(s, x)

\* Set.prototype.delete on an insertion-ordered Set
SetDeleteNever(s, x) == s
SetDelete(s, x) == SelectSeq(s, LAMBDA y : y # x)

\* ------------------------------------------------ building the graph
\* The dependencies among dependencies and parameters
filterDependency(depsOrValueDeps) ==
  SelectSeq(depsOrValueDeps, LAMBDA d : d \in Nodes)

\* Dependency.dependsOn on the pair g = <<edgesAndValues, inverseEdges>>
RECURSIVE AddInverse(_, _, _)
AddInverse(inv, self, deps) ==
  IF deps = <<>> THEN inv
  ELSE AddInverse([inv EXCEPT ![Head(deps)] = SetAdd(@, self)], self, Tail(deps))

dependsOn(g, self, deps) ==
  << [g[1] EXCEPT ![self] = deps],
     AddInverse(g[2], self, filterDependency(deps)) >>

EmptyGraph == << [n \in Nodes |-> <<>>], [n \in Nodes |-> <<>>] >>

\* The programs that build the graph: b depends on a, c depends on a and b;
\* the two calls of dependsOn in either order.
Builds ==
  { << <<"b", <<"a">> >>, <<"c", <<"a", "b">> >> >>,
    << <<"c", <<"a", "b">> >>, <<"b", <<"a">> >> >> }

\* A program that gives parameters to b (a string) and to c (a symbol)
ParamBuild ==
  << <<"b", <<"a", "greeting">> >>, <<"c", <<"a", "token">> >> >>

\* A program that declares parameters before and between dependencies
MixedBuild ==
  << <<"b", <<"greeting", "a">> >>, <<"c", <<"a", "token", "b">> >> >>

\* The program that builds the diamond: b depends on a, c on a and b, d on
\* b and c; b and c are memoized
DiamondBuild ==
  << <<"b", <<"a">> >>, <<"c", <<"a", "b">> >>, <<"d", <<"b", "c">> >> >>
DiamondKinds ==
  [n \in Nodes |->
     IF n \in {"b", "c"} THEN "ResourceDependency" ELSE "Dependency"]

RECURSIVE Build(_, _)
Build(g, calls) ==
  IF calls = <<>> THEN g
  ELSE Build(dependsOn(g, Head(calls)[1], Head(calls)[2]), Tail(calls))

\* ----------------------------------------------------------------- state
VARIABLES
  edgesAndValues,      \* Dependency.edgesAndValues: node -> its edges, in order
  inverseEdges,        \* Dependency.inverseEdges: node -> its dependents (a Set)
  kind,                \* node -> "Dependency" or "ResourceDependency"
  throwingListeners,   \* the events of the contexts that have a listener,
                       \*   registered with on(), that throws
  status,              \* AsyncStatus.status of each node
  changingStatus,      \* AsyncStatus.changingStatus: 0, or the operation whose
                       \*   change() made the promise stored there
  waiting,             \* node -> the get() calls awaiting a changingStatus promise
  memo,                \* ResourceDependency.memo: 0, or the run whose getValue
                       \*   made the promise stored there
  startedFunctions,    \* Dependency.startedFunctions: node -> runs whose
                       \*   outputPromise is in the set
  contextItems,        \* Dependency.contextItems: node -> contexts
  startedDependencies, \* Context.startedDependencies (a Set, in insertion order)
  queue,               \* the microtask queue
  nruns,               \* calls of run() made so far
  runCtx,              \* run -> its context, or NoContext
  runRoots,            \* run -> the dependencies it was asked for
  runParams,           \* run -> the params it was given: their form, their keys
  executionId,         \* run -> what its _cache has under EXECUTION_ID
  cache,               \* run -> node -> state of the promise in _cache
  need,                \* run -> node -> edges its Promise.all still waits for
  dependents,          \* run -> node -> who awaits its cache promise, in order
  promise,             \* run -> node -> the promise made by Dependency.getValue
  subscribers,         \* run -> node -> runs whose cache promise follows it
  output,              \* run -> node -> state of outputPromise
  outputK,             \* run -> node -> which call of the provider it is
  args,                \* run -> node -> arguments given to getValue
  seen,                \* run -> node -> the gate when the run called getValue,
                       \*   or "resetting"
  calls,               \* node -> calls of its provider so far
  invoked,             \* run -> node -> calls of the provider made by the run
  nops,                \* calls of shutdown()/reset() made by the user so far
  op,                  \* operation -> what was called, on what, after how
                       \*   many calls of run()
  opState,             \* operation -> state of the promise it returned
  rfd,                 \* operation -> node -> the call of runFuncOnDep on it
  work,                \* operation -> node -> the promise that the node's
                       \*   shutdown()/reset() hands to status.change and returns
  change,              \* operation -> node -> progress of its status.change
  disposed,            \* node -> calls of its stopFunc so far
  memberAtCall,        \* operation -> members of its context when it was called
  events,              \* what the contexts emitted, in order
  timings,             \* run -> meta.timings: the records pushed, in order
  fails,               \* user functions that threw so far
  pendings             \* user functions that returned a pending promise so far

\* what the program sets up before it runs
graphVars == <<edgesAndValues, inverseEdges, kind, throwingListeners>>
gateVars == <<status, changingStatus, waiting>>
memberVars == <<contextItems, startedDependencies>>
runVars == <<nruns, runCtx, runRoots, runParams, executionId>>
cacheVars == <<cache, need, dependents>>
valueVars == <<promise, subscribers, output, outputK, args, seen, calls, invoked>>
opVars == <<nops, op, opState, rfd, memberAtCall>>
workVars == <<work, change, disposed>>

vars == <<graphVars, gateVars, memberVars, runVars, cacheVars, valueVars,
          opVars, workVars, memo, startedFunctions, queue, events, timings,
          fails, pendings>>

Pending == [st |-> "pending", val |-> Undefined]
Absent == [st |-> "absent", val |-> Undefined]
Settlement(st, val) == [st |-> st, val |-> val]

IsResource(n) == kind[n] = "ResourceDependency"

\* ------------------------------------------------------------- Context
\* Context.add for each of the nodes ns, in order
RECURSIVE AddAll(_, _)
AddAll(members, ns) ==
  IF ns = <<>> THEN members ELSE AddAll(SetAdd(members, Head(ns)), Tail(ns))

ContextAddMembersOnly(c, ns) ==
  IF c = NoContext
  THEN UNCHANGED memberVars
  ELSE /\ startedDependencies' =
            [startedDependencies EXCEPT ![c] = AddAll(@, filterDependency(ns))]
       /\ contextItems' = contextItems
ContextAdd(c, ns) ==
  IF c = NoContext
  THEN UNCHANGED memberVars
  ELSE /\ startedDependencies' =
            [startedDependencies EXCEPT ![c] = AddAll(@, filterDependency(ns))]
       /\ contextItems' =
            [n \in Nodes |->
               IF n \in Range(ns) THEN contextItems[n] \cup {c} ELSE contextItems[n]]

\* --------------------------------------------------------- AsyncStatus
\* AsyncStatus.get() called on the status of node n by a caller whose code
\* after the await is the job (k, i).  With no changingStatus the promise is
\* resolved, with the status read now, and the caller's job is queued ...
GetJobs(n, k, i, v) ==
  IF changingStatus[n] = 0
  THEN <<Job(k, i, n, status[n], v)>> ELSE <<>>

\* ... otherwise get() awaits the changingStatus promise it found
GetWaits(n, k, i) ==
  IF changingStatus[n] = 0
  THEN <<>> ELSE <<[on |-> changingStatus[n], k |-> k, i |-> i]>>

\* ------------------------------------------------------------------- run
\* paramsToMap: the keys of the Map made of params, given as a Map, as an
\* array of pairs, or as an object, of which Object.entries lists the
\* properties whose key is a string
ParamForms == {"Map", "Array", "Object"}
paramsToMap(form, keys) ==
  IF form = "Object" THEN {k \in keys : ~IsSymbol(k)} ELSE keys

\* run(), the part that runs at once: _cache starts as the Map of params,
\* then a getPromiseFromDep for each root
RunWith(roots, form, keys, c) ==
  /\ nruns < MaxRuns
  /\ form = "Object" => keys \subseteq Names \cup {EXECUTION_ID}
  /\ nruns' = nruns + 1
  /\ runCtx' = [runCtx EXCEPT ![nruns + 1] = c]
  /\ runRoots' = [runRoots EXCEPT ![nruns + 1] = roots]
  /\ runParams' = [runParams EXCEPT ![nruns + 1] = [form |-> form, keys |-> keys]]
  /\ executionId' = [executionId EXCEPT ![nruns + 1] =
                       IF EXECUTION_ID \in paramsToMap(form, keys)
                       THEN Supplied(EXECUTION_ID) ELSE RandomUUID(nruns + 1)]
  /\ ContextAdd(c, roots)
  /\ cache' = [cache EXCEPT ![nruns + 1] =
                 [id \in Ids |->
                    IF id \in paramsToMap(form, keys)
                    THEN Settlement("ok", Supplied(id)) ELSE Absent]]
  /\ queue' = queue \o
       [i \in DOMAIN roots |-> Job("Visit", nruns + 1, roots[i], "", User)]
  /\ UNCHANGED <<graphVars, gateVars, need, dependents, valueVars, opVars,
                 workVars, memo, startedFunctions, events, timings, fails, pendings>>

\* run() with the default of params, an object without properties
StartRun(roots, c) == RunWith(roots, "Object", {}, c)

\* paramsToMap of a Map returns the Map itself: _cache of a run given the Map
\* that run p was given is the Map as run p left it
SameMapAsGiven(p) ==
  [id \in Ids |->
     IF id \in runParams[p].keys THEN Settlement("ok", Supplied(id)) ELSE Absent]
SameMap(p) == cache[p]

\* run() given as params the Map that the run before it was given: the Map
\* has the EXECUTION_ID that the run before set, and META_DEPENDENCY is set
\* again to a new object
RunSameMap(roots, c) ==
  /\ nruns < MaxRuns /\ nruns > 0
  /\ runParams[nruns].form \in {"Map", "SameMap"}
  /\ nruns' = nruns + 1
  /\ runCtx' = [runCtx EXCEPT ![nruns + 1] = c]
  /\ runRoots' = [runRoots EXCEPT ![nruns + 1] = roots]
  /\ runParams' = [runParams EXCEPT ![nruns + 1] =
                     [form |-> "SameMap", keys |-> runParams[nruns].keys]]
  /\ executionId' = [executionId EXCEPT ![nruns + 1] = executionId[nruns]]
  /\ ContextAdd(c, roots)
  /\ cache' = [cache EXCEPT ![nruns + 1] = SameMap(nruns)]
  /\ queue' = queue \o
       [i \in DOMAIN roots |-> Job("Visit", nruns + 1, roots[i], "", User)]
  /\ UNCHANGED <<graphVars, gateVars, need, dependents, valueVars, opVars,
                 workVars, memo, startedFunctions, events, timings, fails, pendings>>

\* dep.deps() of a Dependency and of a ValueDependency
DepsUnlessMemo(n) ==
  IF n \in Nodes /\ IsResource(n) /\ memo[n] # 0 THEN <<>>
  ELSE IF n \in Nodes THEN edgesAndValues[n] ELSE <<>>
Deps(n) == IF n \in Nodes THEN edgesAndValues[n] ELSE <<>>

\* _cache.has(dep.id)
CacheHasNothing(r, n) == FALSE
CacheHas(r, n) == cache[r][n].st # "absent"

\* Promise.all goes on to wait when a promise of its list is fulfilled, and
\* rejects when one is rejected
FulfilledAlways(out) == TRUE
Fulfilled(out) == out.st = "ok"

\* The reaction of the Promise.all of each of the parents ps to the settling
\* (out) of the cache promise of their edge n.  acc = [cache, need, q].
RECURSIVE Deliver(_, _, _, _, _)
Deliver(r, n, ps, out, acc) ==
  IF ps = <<>> THEN acc
  ELSE
    LET p == Head(ps)
        live == /\ p # ""
                /\ acc.cache[r][p].st = "pending"
                /\ n \in acc.need[r][p]
        left == acc.need[r][p] \ {n}
        next ==
          IF ~live THEN acc
          ELSE IF Fulfilled(out)
          THEN [cache |-> acc.cache,
                need |-> [acc.need EXCEPT ![r][p] = left],
                q |-> IF left = {}
                      THEN Append(acc.q, Job("GetValue", r, p, "", Undefined))
                      ELSE acc.q]
          ELSE [cache |-> [acc.cache EXCEPT ![r][p] = out],
                need |-> acc.need,
                q |-> Append(acc.q, Job("Settled", r, p, "", Undefined))]
    IN Deliver(r, n, Tail(ps), out, next)

\* The callback of getPromiseFromDep, called for node n by its parent p
Visit ==
  /\ queue # <<>> /\ Head(queue).k = "Visit"
  /\ LET r == Head(queue).i
         n == Head(queue).n
         p == Head(queue).x
         deps == Deps(n)
         first == IF deps = <<>>
                  THEN <<Job(IF n \in Nodes THEN "GetValue" ELSE "ValueGetValue",
                             r, n, "", Undefined)>>
                  ELSE <<>>
         d == Deliver(r, n, <<p>>, cache[r][n],
                      [cache |-> cache, need |-> need, q |-> Tail(queue)])
     IN IF ~CacheHas(r, n)
        THEN /\ ContextAdd(runCtx[r], deps)
             /\ cache' = [cache EXCEPT ![r][n] = Pending]
             /\ need' = [need EXCEPT ![r][n] = Range(deps)]
             /\ dependents' = [dependents EXCEPT ![r][n] = Append(@, p)]
             /\ queue' = Tail(queue)
                  \o [i \in DOMAIN deps |-> Job("Visit", r, deps[i], n, Undefined)]
                  \o first
        ELSE IF cache[r][n].st = "pending"
        THEN /\ dependents' = [dependents EXCEPT ![r][n] = Append(@, p)]
             /\ queue' = Tail(queue)
             /\ UNCHANGED <<memberVars, cache, need>>
        ELSE /\ cache' = d.cache
             /\ need' = d.need
             /\ queue' = d.q
             /\ UNCHANGED <<memberVars, dependents>>
  /\ UNCHANGED <<graphVars, gateVars, runVars, valueVars, opVars, workVars,
                 memo, startedFunctions, events, timings, fails, pendings>>

\* The promises that follow the promise of getValue (r, n) settle with it
HandleSettle(r, n, out, q) ==
  /\ promise' = [promise EXCEPT ![r][n] = out]
  /\ cache' = [s \in Runs |->
                 IF s \in Range(subscribers[r][n])
                 THEN [cache[s] EXCEPT ![n] = out] ELSE cache[s]]
  /\ queue' = q \o [i \in DOMAIN subscribers[r][n] |->
                      Job("Settled", subscribers[r][n][i], n, "", Undefined)]

\* The arguments of getValue: the values of the edges, in order
ArgsReversed(r, n) ==
  [i \in DOMAIN edgesAndValues[n] |->
     cache[r][edgesAndValues[n][Len(edgesAndValues[n]) + 1 - i]].val]
ArgsNodesFirst(r, n) ==
  LET order == filterDependency(edgesAndValues[n])
                 \o SelectSeq(edgesAndValues[n], LAMBDA d : d \notin Nodes)
  IN [i \in DOMAIN order |-> cache[r][order[i]].val]
ArgsOf(r, n) ==
  [i \in DOMAIN edgesAndValues[n] |-> cache[r][edgesAndValues[n][i]].val]

\* ResourceDependency.getValue: this.memo, the run whose promise it is, or 0
MemoNever(n) == 0
MemoOf(n) == IF IsResource(n) THEN memo[n] ELSE 0

\* ResourceDependency.getValue: this.memo = p
MemoizeNothing(n, r) == memo
Memoize(n, r) == IF IsResource(n) THEN [memo EXCEPT ![n] = r] ELSE memo

\* The catch of ResourceDependency.getValue: this.memo = undefined
ForgetNothing(n) == memo
Forget(n) == [memo EXCEPT ![n] = 0]

\* A reset() of n, called by the user or by a context, has not set the
\* status yet
Resetting(n) ==
  \E o \in Ops :
    /\ op[o].to = READY
    /\ change[o][n] # "applied"
    /\ \/ op[o].type = "node" /\ op[o].n = n
       \/ op[o].type = "context" /\ n \in memberAtCall[o]

\* The gate as getValue finds it
Gate(n) == IF Resetting(n) THEN "resetting" ELSE status[n]

\* The callback of Promise.all: dep.getValue(...deps), up to its first await
GetValue ==
  /\ queue # <<>> /\ Head(queue).k = "GetValue"
  /\ LET r == Head(queue).i
         n == Head(queue).n
         h == MemoOf(n)
     IN /\ args' = [args EXCEPT ![r][n] = ArgsOf(r, n)]
        /\ seen' = [seen EXCEPT ![r][n] = Gate(n)]
        /\ IF h # 0
           THEN \* ResourceDependency.getValue: return this.memo
                /\ IF promise[h][n].st = "pending"
                   THEN /\ subscribers' =
                             [subscribers EXCEPT ![h][n] = Append(@, r)]
                        /\ queue' = Tail(queue)
                        /\ cache' = cache
                   ELSE /\ cache' = [cache EXCEPT ![r][n] = promise[h][n]]
                        /\ queue' = Append(Tail(queue),
                                           Job("Settled", r, n, "", Undefined))
                        /\ subscribers' = subscribers
                /\ UNCHANGED <<promise, memo, waiting>>
           ELSE \* Dependency.getValue: await this.status.get()
                /\ promise' = [promise EXCEPT ![r][n] = Pending]
                /\ subscribers' = [subscribers EXCEPT ![r][n] = <<r>>]
                /\ memo' = Memoize(n, r)
                /\ queue' = Tail(queue) \o GetJobs(n, "GotStatus", r, Undefined)
                /\ waiting' = [waiting EXCEPT ![n] = @ \o GetWaits(n, "GotStatus", r)]
                /\ cache' = cache
  /\ UNCHANGED <<graphVars, status, changingStatus, memberVars, runVars, need,
                 dependents, output, outputK, calls, invoked, opVars, workVars,
                 startedFunctions, events, timings, fails, pendings>>

\* The callback of Promise.all for a ValueDependency: getValue throws, the
\* template literal of its message throws first when the key is a symbol
ValueGetValue ==
  /\ queue # <<>> /\ Head(queue).k = "ValueGetValue"
  /\ LET r == Head(queue).i
         n == Head(queue).n
         error == IF IsSymbol(n) THEN SymbolToString ELSE MissingArgument(n)
     IN /\ cache' = [cache EXCEPT ![r][n] = Settlement("err", error)]
        /\ queue' = Append(Tail(queue), Job("Settled", r, n, "", Undefined))
  /\ UNCHANGED <<graphVars, gateVars, memberVars, runVars, need, dependents,
                 valueVars, opVars, workVars, memo, startedFunctions, events, timings,
                 fails, pendings>>

\* Dependency.getValue after its await: status is the value of status.get()
GotStatus ==
  /\ queue # <<>> /\ Head(queue).k = "GotStatus"
  /\ LET r == Head(queue).i
         n == Head(queue).n
     IN IF Head(queue).x = SHUTDOWN
        THEN /\ IF IsResource(n)
                THEN \* the catch of ResourceDependency.getValue runs first
                     /\ queue' = Append(Tail(queue),
                                        Job("Catch", r, n, "", ShutdownError))
                     /\ UNCHANGED <<promise, cache>>
                ELSE HandleSettle(r, n, Settlement("err", ShutdownError),
                                  Tail(queue))
             /\ UNCHANGED <<startedFunctions, output>>
        ELSE /\ startedFunctions' = [startedFunctions EXCEPT ![n] = @ \cup {r}]
             /\ output' = [output EXCEPT ![r][n] = "queued"]
             /\ queue' = Append(Tail(queue), Job("Func", r, n, "", Undefined))
             /\ UNCHANGED <<promise, cache>>
  /\ UNCHANGED <<graphVars, gateVars, memberVars, runVars, need, dependents,
                 subscribers, outputK, args, seen, calls, invoked, opVars, workVars,
                 memo, events, timings, fails, pendings>>

\* Promise.allSettled(startedFunctions) of the operations that wait for the
\* outputPromise of run r on node n
Drain(r, n) ==
  [o \in Ops |->
     IF work[o][n].st = "drain"
     THEN [work[o] EXCEPT ![n].waitFor = @ \ {r}] ELSE work[o]]

\* ... and the callbacks of those it was the last one of
RECURSIVE DrainedJobs(_, _, _)
DrainedJobs(r, n, o) ==
  IF o \notin Ops THEN <<>>
  ELSE (IF work[o][n].st = "drain" /\ work[o][n].waitFor = {r}
        THEN <<Job("Drained", o, n, "", Undefined)>> ELSE <<>>)
       \o DrainedJobs(r, n, o + 1)

\* outputPromise of (r, n) settles
OutputSettles(r, n, ok, q) ==
  /\ ok \/ fails < MaxFails
  /\ fails' = IF ok THEN fails ELSE fails + 1
  /\ output' = [output EXCEPT ![r][n] = IF ok THEN "ok" ELSE "err"]
  /\ work' = Drain(r, n)
  /\ queue' = Append(q, Job("FuncDone", r, n, "", Undefined))
                \o DrainedJobs(r, n, 1)

\* What a user function does when it is called: it returns a value, it
\* throws, or it returns a promise that is pending when the job ends
Outcomes == {"returns", "throws", "pending"}

\* () => this._func(...args): the provider is called
Func ==
  /\ queue # <<>> /\ Head(queue).k = "Func"
  /\ LET r == Head(queue).i
         n == Head(queue).n
     IN /\ calls' = [calls EXCEPT ![n] = @ + 1]
        /\ invoked' = [invoked EXCEPT ![r][n] = @ + 1]
        /\ outputK' = [outputK EXCEPT ![r][n] = calls[n] + 1]
        /\ \E outcome \in Outcomes :
             IF outcome = "pending"
             THEN /\ pendings < MaxPending
                  /\ pendings' = pendings + 1
                  /\ output' = [output EXCEPT ![r][n] = "running"]
                  /\ queue' = Tail(queue)
                  /\ UNCHANGED <<work, fails>>
             ELSE /\ OutputSettles(r, n, outcome = "returns", Tail(queue))
                  /\ pendings' = pendings
  /\ UNCHANGED <<graphVars, gateVars, memberVars, runVars, cacheVars, promise,
                 subscribers, args, seen, opVars, change, disposed, memo,
                 startedFunctions, events, timings>>

\* No job is queued: timers and input/output act, the user's code runs
Idle == queue = <<>>

\* The promise returned by the provider settles
ProviderReturns(r, n, ok) ==
  /\ Idle
  /\ output[r][n] = "running"
  /\ OutputSettles(r, n, ok, queue)
  /\ UNCHANGED <<graphVars, gateVars, memberVars, runVars, cacheVars, promise,
                 subscribers, outputK, args, seen, calls, invoked, opVars, change,
                 disposed, memo, startedFunctions, events, timings, pendings>>

\* The then/catch of outputPromise in Dependency.getValue
FuncDone ==
  /\ queue # <<>> /\ Head(queue).k = "FuncDone"
  /\ LET r == Head(queue).i
         n == Head(queue).n
         k == outputK[r][n]
     IN /\ startedFunctions' = [startedFunctions EXCEPT ![n] = @ \ {r}]
        /\ IF output[r][n] = "ok"
           THEN HandleSettle(r, n, Settlement("ok", Value(n, k)), Tail(queue))
           ELSE IF IsResource(n)
           THEN /\ queue' = Append(Tail(queue),
                                   Job("Catch", r, n, "", ProviderError(n, k)))
                /\ UNCHANGED <<promise, cache>>
           ELSE HandleSettle(r, n, Settlement("err", ProviderError(n, k)),
                             Tail(queue))
  /\ UNCHANGED <<graphVars, gateVars, memberVars, runVars, need, dependents,
                 subscribers, output, outputK, args, seen, calls, invoked, opVars,
                 workVars, memo, events, timings, fails, pendings>>

\* The catch of ResourceDependency.getValue
Catch ==
  /\ queue # <<>> /\ Head(queue).k = "Catch"
  /\ LET r == Head(queue).i
         n == Head(queue).n
     IN /\ memo' = Forget(n)
        /\ HandleSettle(r, n, Settlement("err", Head(queue).v), Tail(queue))
  /\ UNCHANGED <<graphVars, gateVars, memberVars, runVars, need, dependents,
                 subscribers, output, outputK, args, seen, calls, invoked, opVars,
                 workVars, startedFunctions, events, timings, fails, pendings>>

\* An event and the info given to its listeners: the dependency n and the
\* context c; id tells which run or operation emitted it.  info has no
\* executionId: a listener that reads it finds undefined.
Event(type, id, n, c) ==
  [type |-> type, id |-> id, n |-> n, c |-> c, executionId |-> Undefined]

\* The record that run() pushes to meta.timings
Timing(n, c) == [dependency |-> n, context |-> c]

\* run() pushes a record in the then of valuePromise, not in its catch
TimedNever(out) == FALSE
TimedAlways(out) == TRUE
Timed(out) == out.st = "ok"

\* The events of success and the event of failure that goes with each
SuccessEvents == {"successRun", "successShutdown", "successReset"}
FailureOf(type) ==
  IF type = "successRun" THEN "failRun"
  ELSE IF type = "successShutdown" THEN "failShutdown" ELSE "failReset"

\* context.emit(type, info) calls the listeners at once and throws what a
\* listener throws.  In the then of an event of success the promise of the
\* then rejects and the catch that follows it is called; what is thrown in
\* the catch rejects a promise that nobody has.
EmitThrows(type, i, n) ==
  IF type \in throwingListeners /\ type \in SuccessEvents
  THEN <<Job("EmitCatch", i, n, FailureOf(type), Undefined)>> ELSE <<>>

\* The event that run() has the context emit for a settled valuePromise
RunEventFail(out) == "failRun"
RunEvent(out) == IF out.st = "ok" THEN "successRun" ELSE "failRun"

\* The reactions to the cache promise of (r, n): the event of the context,
\* then the Promise.all of the nodes that asked for it
Settled ==
  /\ queue # <<>> /\ Head(queue).k = "Settled"
  /\ LET r == Head(queue).i
         n == Head(queue).n
         out == cache[r][n]
         d == Deliver(r, n, dependents[r][n], out,
                      [cache |-> cache, need |-> need,
                       q |-> Tail(queue)
                               \o (IF runCtx[r] = NoContext THEN <<>>
                                   ELSE EmitThrows(RunEvent(out), r, n))])
     IN /\ events' =
             IF runCtx[r] = NoContext THEN events
             ELSE Append(events, Event(RunEvent(out), r, n, runCtx[r]))
        /\ timings' =
             IF runCtx[r] # NoContext /\ Timed(out)
             THEN [timings EXCEPT ![r] = Append(@, Timing(n, runCtx[r]))]
             ELSE timings
        /\ cache' = d.cache
        /\ need' = d.need
        /\ queue' = d.q
  /\ UNCHANGED <<graphVars, gateVars, memberVars, runVars, dependents,
                 valueVars, opVars, workVars, memo, startedFunctions, fails, pendings>>

\* ------------------------------------------------- shutdown and reset
\* The work promise of a transition: its state, the outputPromises its
\* Promise.allSettled still waits for, and (history) the calls of the provider
\* that had not settled when it was made
NoWork == [st |-> "none", waitFor |-> {}, running |-> {}]
WorkIs(st) == [st |-> st, waitFor |-> {}, running |-> {}]
WorkSettled(o, n) == work[o][n].st \in {"true", "false", "err"}

\* The work promise of (o, n) settles: the callback that AsyncStatus.change
\* put on it, if it is there yet, and the promise returned by shutdown()/reset()
WorkSettle(o, n, st, q) ==
  /\ work' = [work EXCEPT ![o][n].st = st]
  /\ queue' = q
       \o (IF change[o][n] = "cb"
           THEN <<Job("ChangeDone", o, n, "", Undefined)>> ELSE <<>>)
       \o <<Job("Returned", o, n, "", Undefined)>>

\* Dependency.shutdown()/reset() up to the await of _shutdownOrReset
CallTransition(o, n, q, v) ==
  /\ work' = [work EXCEPT ![o][n] = WorkIs("get")]
  /\ queue' = q \o GetJobs(n, "Transition", o, v)
  /\ waiting' = [waiting EXCEPT ![n] = @ \o GetWaits(n, "Transition", o)]

\* The calls of the provider of n, made or about to be made, not settled yet
Running(n) == {r \in Runs : output[r][n] \in {"queued", "running"}}

\* outputPromises of startedFunctions that are not settled yet
InFlightNone(n) == {}
InFlight(n) ==
  {r \in startedFunctions[n] : output[r][n] \in {"queued", "running"}}

\* shutdown is refused: already shut down, or a context still uses the node
RefusedWhenShutdown(n, to, current) == to = SHUTDOWN /\ current = SHUTDOWN
Refused(n, to, current) ==
  to = SHUTDOWN /\ (current = SHUTDOWN \/ contextItems[n] # {})

\* this.memo == null: no run has the promise of n as the memo, or a
\* shutdown() or reset() cleared it
MemoIsNullNever(n) == FALSE
MemoIsNull(n) == memo[n] = 0

\* _shutdownOrReset after its await, with status.change up to its return
Transition ==
  /\ queue # <<>> /\ Head(queue).k = "Transition"
  /\ LET o == Head(queue).i
         n == Head(queue).n
         to == op[o].to
         never == IsResource(n) /\ MemoIsNull(n)
         started == <<Job("Returned", o, n, "", Undefined)>>
         drained == IF InFlight(n) = {}
                    THEN <<Job("Drained", o, n, "", Undefined)>> ELSE <<>>
     IN IF Refused(n, to, Head(queue).x)
        THEN /\ work' = [work EXCEPT ![o][n] = WorkIs("false")]
             /\ queue' = Tail(queue) \o started
             /\ UNCHANGED <<gateVars, change, memo>>
        ELSE /\ status' = [status EXCEPT ![n] = CHANGING]
             /\ changingStatus' = [changingStatus EXCEPT ![n] = o]
             /\ waiting' = [waiting EXCEPT ![n] = @ \o GetWaits(n, "ChangeCb", o)]
             /\ change' = [change EXCEPT ![o][n] = "get"]
             /\ IF never
                THEN /\ work' = [work EXCEPT ![o][n] = WorkIs("false")]
                     /\ queue' = Tail(queue) \o GetJobs(n, "ChangeCb", o, Undefined)
                                   \o started
                     /\ memo' = memo
                ELSE /\ work' = [work EXCEPT ![o][n] =
                                   [st |-> "drain", waitFor |-> InFlight(n),
                                    running |-> Running(n)]]
                     /\ queue' = Tail(queue) \o drained
                                   \o GetJobs(n, "ChangeCb", o, Undefined)
                     /\ memo' = IF IsResource(n)
                                THEN [memo EXCEPT ![n] = 0] ELSE memo
  /\ UNCHANGED <<graphVars, memberVars, runVars, cacheVars, valueVars, opVars,
                 disposed, startedFunctions, events, timings, fails, pendings>>

\* Promise.allSettled(startedFunctions) resolved: stopFunc() is called
\* (ResourceDependency), and then () => true
Drained ==
  /\ queue # <<>> /\ Head(queue).k = "Drained"
  /\ LET o == Head(queue).i
         n == Head(queue).n
     IN IF IsResource(n)
        THEN /\ disposed' = [disposed EXCEPT ![n] = @ + 1]
             /\ \E outcome \in Outcomes :
                  IF outcome = "pending"
                  THEN /\ pendings < MaxPending
                       /\ pendings' = pendings + 1
                       /\ work' = [work EXCEPT ![o][n].st = "dispose"]
                       /\ queue' = Tail(queue)
                       /\ fails' = fails
                  ELSE /\ pendings' = pendings
                       /\ outcome = "returns" \/ fails < MaxFails
                       /\ fails' = IF outcome = "returns" THEN fails ELSE fails + 1
                       /\ WorkSettle(o, n,
                            IF outcome = "returns" THEN "true" ELSE "err",
                            Tail(queue))
        ELSE /\ WorkSettle(o, n, "true", Tail(queue))
             /\ UNCHANGED <<disposed, fails, pendings>>
  /\ UNCHANGED <<graphVars, gateVars, memberVars, runVars, cacheVars, valueVars,
                 opVars, change, memo, startedFunctions, events, timings>>

\* The promise returned by stopFunc settles
DisposeReturns(o, n, ok) ==
  /\ Idle
  /\ work[o][n].st = "dispose"
  /\ ok \/ fails < MaxFails
  /\ fails' = IF ok THEN fails ELSE fails + 1
  /\ WorkSettle(o, n, IF ok THEN "true" ELSE "err", queue)
  /\ UNCHANGED <<graphVars, gateVars, memberVars, runVars, cacheVars, valueVars,
                 opVars, change, disposed, memo, startedFunctions, events, timings, pendings>>

\* AsyncStatus.change: the callback of this.get().then(...) puts the callback
\* that sets the status on the work promise
ChangeCb ==
  /\ queue # <<>> /\ Head(queue).k = "ChangeCb"
  /\ LET o == Head(queue).i
         n == Head(queue).n
     IN /\ change' = [change EXCEPT ![o][n] = "cb"]
        /\ queue' = Tail(queue)
             \o (IF WorkSettled(o, n)
                 THEN <<Job("ChangeDone", o, n, "", Undefined)>> ELSE <<>>)
  /\ UNCHANGED <<graphVars, gateVars, memberVars, runVars, cacheVars, valueVars,
                 opVars, work, disposed, memo, startedFunctions, events, timings, fails, pendings>>

\* The status that the callbacks of AsyncStatus.change set: newStatus, in the
\* then and in the catch alike
NewStatusInThen(o, n) == IF work[o][n].st = "err" THEN status[n] ELSE op[o].to
NewStatus(o, n) == op[o].to

\* AsyncStatus.change: the callback on the work promise (then or catch)
ChangeDone ==
  /\ queue # <<>> /\ Head(queue).k = "ChangeDone"
  /\ LET o == Head(queue).i
         n == Head(queue).n
     IN /\ changingStatus' = [changingStatus EXCEPT ![n] = 0]
        /\ status' = [status EXCEPT ![n] = NewStatus(o, n)]
        /\ change' = [change EXCEPT ![o][n] = "applied"]
        /\ queue' = Append(Tail(queue), Job("ChangeResolved", o, n, "", Undefined))
  /\ UNCHANGED <<graphVars, waiting, memberVars, runVars, cacheVars, valueVars,
                 opVars, work, disposed, memo, startedFunctions, events, timings, fails, pendings>>

\* The changingStatus promise made by (o, n) resolves: the get() calls that
\* await it go on
ChangeResolved ==
  /\ queue # <<>> /\ Head(queue).k = "ChangeResolved"
  /\ LET o == Head(queue).i
         n == Head(queue).n
         woken == SelectSeq(waiting[n], LAMBDA w : w.on = o)
     IN /\ waiting' = [waiting EXCEPT ![n] = SelectSeq(@, LAMBDA w : w.on # o)]
        /\ queue' = Tail(queue)
             \o [i \in DOMAIN woken |->
                   Job("GetResume", woken[i].i, n, woken[i].k, Undefined)]
  /\ UNCHANGED <<graphVars, status, changingStatus, memberVars, runVars,
                 cacheVars, valueVars, opVars, workVars, memo, startedFunctions,
                 events, timings, fails, pendings>>

\* AsyncStatus.get after its await: return this.status
GetResume ==
  /\ queue # <<>> /\ Head(queue).k = "GetResume"
  /\ queue' = Append(Tail(queue),
                Job(Head(queue).x, Head(queue).i, Head(queue).n,
                    status[Head(queue).n], Undefined))
  /\ UNCHANGED <<graphVars, gateVars, memberVars, runVars, cacheVars, valueVars,
                 opVars, workVars, memo, startedFunctions, events, timings, fails, pendings>>

\* AsyncStatus.change(newStatus, promise) called by the user on the status of
\* n, with a promise of their own: either pending, or resolved already
Change(n, to, st) ==
  /\ nops < MaxCalls
  /\ nops' = nops + 1
  /\ op' = [op EXCEPT ![nops + 1] =
              [type |-> "change", c |-> NoContext, n |-> n, to |-> to,
               after |-> nruns]]
  /\ status' = [status EXCEPT ![n] = CHANGING]
  /\ changingStatus' = [changingStatus EXCEPT ![n] = nops + 1]
  /\ waiting' = [waiting EXCEPT ![n] = @ \o GetWaits(n, "ChangeCb", nops + 1)]
  /\ change' = [change EXCEPT ![nops + 1][n] = "get"]
  /\ work' = [work EXCEPT ![nops + 1][n] = WorkIs(st)]
  /\ queue' = queue \o GetJobs(n, "ChangeCb", nops + 1, User)
  /\ UNCHANGED <<graphVars, memberVars, runVars, cacheVars, valueVars, opState,
                 rfd, memberAtCall, disposed, memo, startedFunctions, events, timings,
                 fails, pendings>>

\* The promise that the user gave to change() settles
PromiseSettles(o, n, ok) ==
  /\ Idle
  /\ work[o][n].st = "user"
  /\ work' = [work EXCEPT ![o][n].st = IF ok THEN "true" ELSE "err"]
  /\ queue' = IF change[o][n] = "cb"
              THEN <<Job("ChangeDone", o, n, "", Undefined)>> ELSE <<>>
  /\ UNCHANGED <<graphVars, gateVars, memberVars, runVars, cacheVars, valueVars,
                 opVars, change, disposed, memo, startedFunctions, events, timings,
                 fails, pendings>>

\* AsyncStatus.get() called by the user on the status of n
Get(n) ==
  /\ nops < MaxCalls
  /\ nops' = nops + 1
  /\ op' = [op EXCEPT ![nops + 1] =
              [type |-> "get", c |-> NoContext, n |-> n, to |-> status[n],
               after |-> nruns]]
  /\ opState' = [opState EXCEPT ![nops + 1] = "pending"]
  /\ queue' = queue \o GetJobs(n, "Got", nops + 1, User)
  /\ waiting' = [waiting EXCEPT ![n] = @ \o GetWaits(n, "Got", nops + 1)]
  /\ UNCHANGED <<graphVars, status, changingStatus, memberVars, runVars,
                 cacheVars, valueVars, rfd, memberAtCall, workVars, memo,
                 startedFunctions, events, timings, fails, pendings>>

\* The promise returned to the user by get() is resolved with the status
Got ==
  /\ queue # <<>> /\ Head(queue).k = "Got"
  /\ opState' = [opState EXCEPT ![Head(queue).i] = Head(queue).x]
  /\ queue' = Tail(queue)
  /\ UNCHANGED <<graphVars, gateVars, memberVars, runVars, cacheVars, valueVars,
                 nops, op, rfd, memberAtCall, workVars, memo, startedFunctions,
                 events, timings, fails, pendings>>

\* The promise of _shutdownOrReset follows the work promise, and the promise
\* of shutdown()/reset() follows it
Returned ==
  /\ queue # <<>> /\ Head(queue).k = "Returned"
  /\ queue' = Append(Tail(queue),
                Job("TransitionSettled", Head(queue).i, Head(queue).n, "",
                    Undefined))
  /\ UNCHANGED <<graphVars, gateVars, memberVars, runVars, cacheVars, valueVars,
                 opVars, workVars, memo, startedFunctions, events, timings, fails, pendings>>

\* ------------------------------------------------ Context._execInverse
\* Context.has, on the members of the context
HasAlways(members, d) == TRUE
Has(members, d) == d \in Range(members)

NoCall == [st |-> "none", par |-> "", kids |-> {}]

\* runFuncOnDep(d) called by runFuncOnDep(parent), up to its await, for a d
\* that the context has: d is removed, runFuncOnDep is called on each of its
\* inverse edges, and Promise.all is called on the promises they return.
\* acc = [members, rfd, q, sk, v]: the members of the context, the calls of
\* this operation, the queue, the inverse edges of the caller found removed,
\* and the mark of the jobs queued.
RECURSIVE RunFuncOnDep(_, _, _, _)
RECURSIVE RunFuncOnKids(_, _, _, _)
RunFuncOnDep(o, d, parent, acc) ==
  LET kids == inverseEdges[d]
      a1 == [members |-> SetDelete(acc.members, d),
             rfd |-> [acc.rfd EXCEPT ![d] =
                        [st |-> "await", par |-> parent, kids |-> Range(kids)]],
             q |-> acc.q,
             sk |-> <<>>,
             v |-> acc.v]
      a2 == RunFuncOnKids(o, d, kids, a1)
      \* the promises of the calls that returned at once are resolved
      resolved == [i \in DOMAIN a2.sk |-> Job("KidDone", o, d, a2.sk[i], acc.v)]
      \* Promise.all of no promise is resolved
      none == IF kids = <<>>
              THEN <<Job("CallFunc", o, d, "", acc.v)>> ELSE <<>>
  IN [members |-> a2.members,
      rfd |-> a2.rfd,
      q |-> a2.q \o resolved \o none,
      sk |-> acc.sk,
      v |-> acc.v]

RunFuncOnKids(o, d, kids, acc) ==
  IF kids = <<>> THEN acc
  ELSE IF Has(acc.members, Head(kids))
  THEN RunFuncOnKids(o, d, Tail(kids), RunFuncOnDep(o, Head(kids), d, acc))
  ELSE RunFuncOnKids(o, d, Tail(kids), [acc EXCEPT !.sk = Append(@, Head(kids))])

\* Context._execInverse, up to the promise it returns
ExecInverse(o, c, q, v) ==
  LET members == startedDependencies[c]
      w == RunFuncOnDep(o, members[1], "",
                        [members |-> members, rfd |-> rfd[o], q |-> q,
                         sk |-> <<>>, v |-> v])
  IN IF members = <<>>
     THEN /\ opState' = [opState EXCEPT ![o] = "resolved"]
          /\ queue' = q
          /\ UNCHANGED <<rfd, memberVars>>
     ELSE /\ opState' = [opState EXCEPT ![o] = "pending"]
          /\ queue' = w.q
          /\ rfd' = [rfd EXCEPT ![o] = w.rfd]
          /\ startedDependencies' = [startedDependencies EXCEPT ![c] = w.members]
          /\ contextItems' =
               [n \in Nodes |->
                  IF n \in Range(members) \ Range(w.members)
                  THEN contextItems[n] \ {c} ELSE contextItems[n]]

\* Context.shutdown() and Context.reset()
ContextOp(c, to) ==
  /\ nops < MaxOps
  /\ nops' = nops + 1
  /\ op' = [op EXCEPT ![nops + 1] =
              [type |-> "context", c |-> c, n |-> "", to |-> to, after |-> nruns]]
  /\ memberAtCall' = [memberAtCall EXCEPT ![nops + 1] = Range(startedDependencies[c])]
  /\ ExecInverse(nops + 1, c, queue, User)
  /\ UNCHANGED <<graphVars, gateVars, runVars, cacheVars, valueVars, workVars,
                 memo, startedFunctions, events, timings, fails, pendings>>

\* runFuncOnDep(first).then(() => this._execInverse(func))
Again ==
  /\ queue # <<>> /\ Head(queue).k = "Again"
  /\ ExecInverse(Head(queue).i, op[Head(queue).i].c, Tail(queue), Undefined)
  /\ UNCHANGED <<graphVars, gateVars, runVars, cacheVars, valueVars, workVars,
                 nops, op, memberAtCall, memo, startedFunctions, events, timings, fails, pendings>>

\* runFuncOnDep after its await: return func(d), which calls d.shutdown() or
\* d.reset()
CallFunc ==
  /\ queue # <<>> /\ Head(queue).k = "CallFunc"
  /\ LET o == Head(queue).i
         d == Head(queue).n
     IN /\ rfd' = [rfd EXCEPT ![o][d].st = "func"]
        /\ CallTransition(o, d, Tail(queue), Undefined)
  /\ UNCHANGED <<graphVars, status, changingStatus, memberVars, runVars,
                 cacheVars, valueVars, nops, op, opState, memberAtCall, change,
                 disposed, memo, startedFunctions, events, timings, fails, pendings>>

\* Promise.all of runFuncOnDep(d): the promise of the call on kid resolved
KidDone ==
  /\ queue # <<>> /\ Head(queue).k = "KidDone"
  /\ LET o == Head(queue).i
         d == Head(queue).n
         left == rfd[o][d].kids \ {Head(queue).x}
     IN /\ rfd' = [rfd EXCEPT ![o][d].kids = left]
        /\ queue' = Tail(queue)
             \o (IF left = {} /\ rfd[o][d].st = "await"
                 THEN <<Job("CallFunc", o, d, "", Undefined)>> ELSE <<>>)
  /\ UNCHANGED <<graphVars, gateVars, memberVars, runVars, cacheVars, valueVars,
                 nops, op, opState, memberAtCall, workVars, memo,
                 startedFunctions, events, timings, fails, pendings>>

\* The promise of runFuncOnDep(d) settles: what awaits it goes on
Notify(o, d, ok) ==
  IF rfd[o][d].par = ""
  THEN IF ok THEN <<Job("Again", o, "", "", Undefined)>>
       ELSE <<Job("Rejected", o, "", "", Undefined)>>
  ELSE IF ok THEN <<Job("KidDone", o, rfd[o][d].par, d, Undefined)>>
       ELSE <<Job("KidFailed", o, rfd[o][d].par, d, Undefined)>>

\* Promise.all of runFuncOnDep(d): the promise of a call rejected, the await
\* throws, and func(d) is not called
KidFailed ==
  /\ queue # <<>> /\ Head(queue).k = "KidFailed"
  /\ LET o == Head(queue).i
         d == Head(queue).n
     IN IF rfd[o][d].st = "await"
        THEN /\ rfd' = [rfd EXCEPT ![o][d].st = "failed"]
             /\ queue' = Tail(queue) \o Notify(o, d, FALSE)
        ELSE /\ queue' = Tail(queue)
             /\ rfd' = rfd
  /\ UNCHANGED <<graphVars, gateVars, memberVars, runVars, cacheVars, valueVars,
                 nops, op, opState, memberAtCall, workVars, memo,
                 startedFunctions, events, timings, fails, pendings>>

\* The promise returned by Context.shutdown()/reset() rejects
Rejected ==
  /\ queue # <<>> /\ Head(queue).k = "Rejected"
  /\ opState' = [opState EXCEPT ![Head(queue).i] = "rejected"]
  /\ queue' = Tail(queue)
  /\ UNCHANGED <<graphVars, gateVars, memberVars, runVars, cacheVars, valueVars,
                 nops, op, rfd, memberAtCall, workVars, memo, startedFunctions,
                 events, timings, fails, pendings>>

\* The event that Context.shutdown()/reset() emits for the outcome of
\* d.shutdown()/d.reset()
TransitionEvent(o, n) ==
  LET name == IF op[o].to = SHUTDOWN THEN "Shutdown" ELSE "Reset"
  IN IF work[o][n].st = "true"
     THEN <<Event("success" \o name, o, n, op[o].c)>>
     ELSE IF work[o][n].st = "err"
     THEN <<Event("fail" \o name, o, n, op[o].c)>>
     ELSE <<>>

\* The promise returned by d.shutdown()/d.reset() settled
TransitionSettled ==
  /\ queue # <<>> /\ Head(queue).k = "TransitionSettled"
  /\ LET o == Head(queue).i
         n == Head(queue).n
         ok == work[o][n].st # "err"
     IN IF op[o].type = "node"
        THEN /\ opState' = [opState EXCEPT ![o] =
                              IF ok THEN "resolved" ELSE "rejected"]
             /\ queue' = Tail(queue)
             /\ UNCHANGED <<rfd, events, timings>>
        ELSE /\ events' = events \o TransitionEvent(o, n)
             /\ timings' = timings
             /\ rfd' = [rfd EXCEPT ![o][n].st = IF ok THEN "done" ELSE "failed"]
             /\ queue' = Tail(queue)
                  \o (IF TransitionEvent(o, n) = <<>> THEN <<>>
                      ELSE EmitThrows(TransitionEvent(o, n)[1].type, o, n))
                  \o Notify(o, n, ok)
             /\ opState' = opState
  /\ UNCHANGED <<graphVars, gateVars, memberVars, runVars, cacheVars, valueVars,
                 nops, op, memberAtCall, workVars, memo, startedFunctions, fails, pendings>>

\* The catch after the then in which emit() threw: the event of failure is
\* emitted, with what the listener threw as its error
EmitCatch ==
  /\ queue # <<>> /\ Head(queue).k = "EmitCatch"
  /\ LET i == Head(queue).i
         type == Head(queue).x
         c == IF type = "failRun" THEN runCtx[i] ELSE op[i].c
     IN events' = Append(events, Event(type, i, Head(queue).n, c))
  /\ timings' = timings
  /\ queue' = Tail(queue)
  /\ UNCHANGED <<graphVars, gateVars, memberVars, runVars, cacheVars, valueVars,
                 opVars, workVars, memo, startedFunctions, fails, pendings>>

\* Dependency.shutdown() and Dependency.reset(), called by the user
NodeOp(n, to) ==
  /\ nops < MaxOps
  /\ nops' = nops + 1
  /\ op' = [op EXCEPT ![nops + 1] =
              [type |-> "node", c |-> NoContext, n |-> n, to |-> to, after |-> nruns]]
  /\ opState' = [opState EXCEPT ![nops + 1] = "pending"]
  /\ CallTransition(nops + 1, n, queue, User)
  /\ UNCHANGED <<graphVars, status, changingStatus, memberVars, runVars,
                 cacheVars, valueVars, rfd, memberAtCall, change, disposed, memo,
                 startedFunctions, events, timings, fails, pendings>>

\* ------------------------------------------------------- specifications
Kinds ==
  {k \in [Nodes -> {"Dependency", "ResourceDependency"}] : k["d"] = "Dependency"}
Resources == {[n \in Nodes |-> "ResourceDependency"]}

\* What run() is asked for: a dependency, or a list of them
Roots == {<<"a">>, <<"b">>, <<"c">>, <<"a", "c">>}

\* The state after the graph is built by the program b with nodes of kinds
\* k, and listeners that throw are registered for the events l
InitListening(b, k, l) ==
  /\ edgesAndValues = Build(EmptyGraph, b)[1]
  /\ inverseEdges = Build(EmptyGraph, b)[2]
  /\ kind = k
  /\ throwingListeners = l
  /\ status = [n \in Nodes |-> READY]
  /\ changingStatus = [n \in Nodes |-> 0]
  /\ waiting = [n \in Nodes |-> <<>>]
  /\ memo = [n \in Nodes |-> 0]
  /\ startedFunctions = [n \in Nodes |-> {}]
  /\ contextItems = [n \in Nodes |-> {}]
  /\ startedDependencies = [c \in Contexts |-> <<>>]
  /\ queue = <<>>
  /\ nruns = 0
  /\ runCtx = [r \in Runs |-> NoContext]
  /\ runRoots = [r \in Runs |-> <<>>]
  /\ runParams = [r \in Runs |-> [form |-> "Object", keys |-> {}]]
  /\ executionId = [r \in Runs |-> Undefined]
  /\ cache = [r \in Runs |-> [n \in Ids |-> Absent]]
  /\ need = [r \in Runs |-> [n \in Ids |-> {}]]
  /\ dependents = [r \in Runs |-> [n \in Ids |-> <<>>]]
  /\ promise = [r \in Runs |-> [n \in Nodes |-> Absent]]
  /\ subscribers = [r \in Runs |-> [n \in Nodes |-> <<>>]]
  /\ output = [r \in Runs |-> [n \in Nodes |-> "none"]]
  /\ outputK = [r \in Runs |-> [n \in Nodes |-> 0]]
  /\ args = [r \in Runs |-> [n \in Nodes |-> <<>>]]
  /\ seen = [r \in Runs |-> [n \in Nodes |-> "none"]]
  /\ calls = [n \in Nodes |-> 0]
  /\ invoked = [r \in Runs |-> [n \in Nodes |-> 0]]
  /\ nops = 0
  /\ op = [o \in Ops |->
            [type |-> "none", c |-> NoContext, n |-> "", to |-> READY, after |-> 0]]
  /\ opState = [o \in Ops |-> "none"]
  /\ rfd = [o \in Ops |-> [n \in Nodes |-> NoCall]]
  /\ work = [o \in Ops |-> [n \in Nodes |-> NoWork]]
  /\ change = [o \in Ops |-> [n \in Nodes |-> "none"]]
  /\ disposed = [n \in Nodes |-> 0]
  /\ memberAtCall = [o \in Ops |-> {}]
  /\ events = <<>>
  /\ timings = [r \in Runs |-> <<>>]
  /\ fails = 0
  /\ pendings = 0

\* The state after the graph is built by the program b with nodes of kinds k
InitWith(b, k) == InitListening(b, k, {})

\* The jobs of run()
RunJobs ==
  \/ Visit
  \/ GetValue
  \/ GotStatus
  \/ Func
  \/ FuncDone
  \/ Catch
  \/ Settled

\* The jobs of Dependency.shutdown() and Dependency.reset()
NodeJobs ==
  \/ Transition
  \/ Drained
  \/ ChangeCb
  \/ ChangeDone
  \/ ChangeResolved
  \/ Returned
  \/ TransitionSettled

\* The jobs of Context.shutdown() and Context.reset()
ContextJobs ==
  \/ Again
  \/ CallFunc
  \/ KidDone
  \/ KidFailed
  \/ Rejected

\* The user's code runs when no job is queued; it may make several calls, so
\* it may also call when the only jobs queued are those of calls just made
UserTurn == \A i \in DOMAIN queue : queue[i].v = User

\* Nothing is queued and no user function is running: the promises that
\* can still settle have settled
Quiet ==
  /\ Idle
  /\ \A r \in Runs, n \in Nodes : output[r][n] # "running"
  /\ \A o \in Ops, n \in Nodes : work[o][n].st # "dispose"

\* run() without a context; a and b are of either kind
InitRun ==
  \E k \in Kinds :
    k["c"] = "ResourceDependency" /\ InitWith(CHOOSE b \in Builds : TRUE, k)

NextRun ==
  \/ UserTurn /\ \E roots \in Roots \ {<<"a">>} : StartRun(roots, NoContext)
  \/ \E r \in Runs, n \in Nodes, ok \in BOOLEAN : ProviderReturns(r, n, ok)
  \/ RunJobs

SpecRun == InitRun /\ [][NextRun]_vars

\* run() of a in a context and of b with and without it, then shutdown() and
\* reset() of the context and of b, each call made when the calls before it
\* are over
InitDispose == \E k \in Resources : InitWith(CHOOSE b \in Builds : TRUE, k)

NextDispose ==
  \/ Quiet /\ nops = 0
           /\ \/ \E c \in {"X", NoContext} : StartRun(<<"b">>, c)
              \/ StartRun(<<"a">>, "X")
  \/ \E r \in Runs, n \in Nodes, ok \in BOOLEAN : ProviderReturns(r, n, ok)
  \/ RunJobs
  \/ Quiet /\ \E to \in {SHUTDOWN, READY} : ContextOp("X", to)
  \/ Quiet /\ \E to \in {SHUTDOWN, READY} : NodeOp("b", to)
  \/ \E o \in Ops, n \in Nodes, ok \in BOOLEAN : DisposeReturns(o, n, ok)
  \/ NodeJobs
  \/ ContextJobs

SpecDispose == InitDispose /\ [][NextDispose]_vars

\* run() of d in the diamond, each call made when the one before is over
InitDiamond == InitWith(DiamondBuild, DiamondKinds)

NextDiamond ==
  \/ Quiet /\ StartRun(<<"d">>, "X")
  \/ \E r \in Runs, n \in Nodes, ok \in BOOLEAN : ProviderReturns(r, n, ok)
  \/ RunJobs

SpecDiamond == InitDiamond /\ [][NextDiamond]_vars

\* An AsyncStatus used alone: change() and get() called at any time, with
\* promises that settle in any order
InitStatus == \E k \in Resources : InitWith(CHOOSE b \in Builds : TRUE, k)

NextStatus ==
  \/ UserTurn /\ \E to \in {READY, SHUTDOWN}, st \in {"user", "true"} :
                    Change("a", to, st)
  \/ UserTurn /\ Get("a")
  \/ \E o \in Ops, ok \in BOOLEAN : PromiseSettles(o, "a", ok)
  \/ ChangeCb
  \/ ChangeDone
  \/ ChangeResolved
  \/ GetResume
  \/ Got

SpecStatus == InitStatus /\ [][NextStatus]_vars

\* run() in a context, each call made when the calls before it are over;
\* the nodes are of either kind
InitEvents == \E k \in Kinds : InitWith(CHOOSE b \in Builds : TRUE, k)

NextEvents ==
  \/ Quiet /\ \E roots \in Roots : StartRun(roots, "X")
  \/ \E r \in Runs, n \in Nodes, ok \in BOOLEAN : ProviderReturns(r, n, ok)
  \/ RunJobs

SpecEvents == InitEvents /\ [][NextEvents]_vars

\* run() of nodes with parameters, with params of each form
InitParams == \E k \in Resources : InitWith(ParamBuild, k)

NextParams ==
  \/ Quiet /\ \E roots \in {<<"b">>, <<"c">>}, form \in ParamForms,
                  keys \in SUBSET Names : RunWith(roots, form, keys, "X")
  \/ \E r \in Runs, n \in Nodes, ok \in BOOLEAN : ProviderReturns(r, n, ok)
  \/ RunJobs
  \/ ValueGetValue

SpecParams == InitParams /\ [][NextParams]_vars

\* run() in a context whose listeners throw, then shutdown() and reset() of
\* the context, each call made when the calls before it are over
InitListeners ==
  \E k \in Resources, l \in {SuccessEvents, {"failRun", "failShutdown", "failReset"}} :
    InitListening(CHOOSE b \in Builds : TRUE, k, l)

NextListeners ==
  \/ Quiet /\ \E roots \in {<<"a">>, <<"b">>} : StartRun(roots, "X")
  \/ \E r \in Runs, n \in Nodes, ok \in BOOLEAN : ProviderReturns(r, n, ok)
  \/ RunJobs
  \/ Quiet /\ \E to \in {SHUTDOWN, READY} : ContextOp("X", to)
  \/ \E o \in Ops, n \in Nodes, ok \in BOOLEAN : DisposeReturns(o, n, ok)
  \/ NodeJobs
  \/ ContextJobs
  \/ EmitCatch

SpecListeners == InitListeners /\ [][NextListeners]_vars

\* run() in a context, with and without an id of the execution in params
InitIds == \E k \in Resources : InitWith(CHOOSE b \in Builds : TRUE, k)

NextIds ==
  \/ Quiet /\ \E roots \in {<<"b">>, <<"a", "c">>}, form \in ParamForms,
                  keys \in {{}, {EXECUTION_ID}} : RunWith(roots, form, keys, "X")
  \/ \E r \in Runs, n \in Nodes, ok \in BOOLEAN : ProviderReturns(r, n, ok)
  \/ RunJobs

SpecIds == InitIds /\ [][NextIds]_vars

\* run() of nodes that declare parameters before and between dependencies
InitMixed == \E k \in Resources : InitWith(MixedBuild, k)

NextMixed ==
  \/ Quiet /\ \E roots \in {<<"b">>, <<"c">>}, form \in {"Map", "Object"},
                  keys \in SUBSET Names : RunWith(roots, form, keys, NoContext)
  \/ \E r \in Runs, n \in Nodes, ok \in BOOLEAN : ProviderReturns(r, n, ok)
  \/ RunJobs
  \/ ValueGetValue

SpecMixed == InitMixed /\ [][NextMixed]_vars

\* The program that builds the graph: dependsOn called on any node, any
\* number of times, with up to two of the nodes before it and a parameter
Before(n) == {m \in Nodes : \E i, j \in 1..4 :
                i < j /\ <<"a", "b", "c", "d">>[i] = m
                      /\ <<"a", "b", "c", "d">>[j] = n}

DepsOf(n) ==
  LET E == Before(n) \cup {"greeting"}
  IN {<<>>} \cup {<<x>> : x \in E}
            \cup {s \in E \X E : s[1] # s[2]}

DependsOn(self, deps) ==
  /\ nruns = 0
  /\ edgesAndValues' = dependsOn(<<edgesAndValues, inverseEdges>>, self, deps)[1]
  /\ inverseEdges' = dependsOn(<<edgesAndValues, inverseEdges>>, self, deps)[2]
  /\ UNCHANGED <<kind, throwingListeners, gateVars, memberVars, runVars,
                 cacheVars, valueVars, opVars, workVars, memo, startedFunctions,
                 queue, events, timings, fails, pendings>>

InitGraph == \E k \in Resources : InitWith(<<>>, k)

NextGraph ==
  \E self \in {"b", "c"} : \E deps \in DepsOf(self) : DependsOn(self, deps)

SpecGraph == InitGraph /\ [][NextGraph]_vars

\* run() of b in one context and of a in another, and shutdown() and reset()
\* of the contexts, called at any time when no job is queued, also while a
\* provider or a dispose hook is running
InitMembers == \E k \in Resources : InitWith(CHOOSE b \in Builds : TRUE, k)

\* Fewer than MaxUses calls were made
MayUse == nruns + nops < MaxUses

NextMembers ==
  \/ Idle /\ MayUse /\ (StartRun(<<"b">>, "X") \/ StartRun(<<"a">>, "Y"))
  \/ \E r \in Runs, n \in Nodes, ok \in BOOLEAN : ProviderReturns(r, n, ok)
  \/ RunJobs
  \/ Idle /\ MayUse
          /\ \E c \in Contexts, to \in {SHUTDOWN, READY} : ContextOp(c, to)
  \/ \E o \in Ops, n \in Nodes, ok \in BOOLEAN : DisposeReturns(o, n, ok)
  \/ NodeJobs
  \/ ContextJobs
  \/ GetResume

SpecMembers == InitMembers /\ [][NextMembers]_vars

\* run() of c without a context and of a and b, which has a parameter, in a
\* context, then shutdown() and reset() of the context, each call made when
\* the calls before it are over
InitEnroll == \E k \in Resources : InitWith(ParamBuild, k)

NextEnroll ==
  \/ Quiet /\ nops = 0
           /\ \/ RunWith(<<"c">>, "Map", {"token"}, NoContext)
              \/ \E roots \in {<<"a">>, <<"b">>}, keys \in {{}, {"greeting"}} :
                   RunWith(roots, "Object", keys, "X")
  \/ \E r \in Runs, n \in Nodes, ok \in BOOLEAN : ProviderReturns(r, n, ok)
  \/ RunJobs
  \/ ValueGetValue
  \/ Quiet /\ \E to \in {SHUTDOWN, READY} : ContextOp("X", to)
  \/ \E o \in Ops, n \in Nodes, ok \in BOOLEAN : DisposeReturns(o, n, ok)
  \/ NodeJobs
  \/ ContextJobs

SpecEnroll == InitEnroll /\ [][NextEnroll]_vars

\* run() of a in a context, and shutdown() and reset() of a and of the
\* context, in any order, each call made when the calls before it are over
InitNever == \E k \in Resources : InitWith(CHOOSE b \in Builds : TRUE, k)

NextNever ==
  \/ Quiet /\ StartRun(<<"a">>, "X")
  \/ \E r \in Runs, ok \in BOOLEAN : ProviderReturns(r, "a", ok)
  \/ RunJobs
  \/ Quiet /\ \E to \in {SHUTDOWN, READY} : ContextOp("X", to)
  \/ Quiet /\ \E to \in {SHUTDOWN, READY} : NodeOp("a", to)
  \/ \E o \in Ops, ok \in BOOLEAN : DisposeReturns(o, "a", ok)
  \/ NodeJobs
  \/ Again
  \/ CallFunc
  \/ KidDone
  \/ Rejected

SpecNever == InitNever /\ [][NextNever]_vars

\* run() in a context, a call made when no job is queued: the providers of
\* an earlier run may still be running
InitOrder == \E k \in Resources : InitWith(CHOOSE b \in Builds : TRUE, k)

NextOrder ==
  \/ Idle /\ \E roots \in Roots : StartRun(roots, "X")
  \/ \E r \in Runs, n \in Nodes, ok \in BOOLEAN : ProviderReturns(r, n, ok)
  \/ RunJobs

SpecOrder == InitOrder /\ [][NextOrder]_vars

\* run() of a Resource without a context, then shutdown() of it, called any
\* number of times once it is started, also in one turn and while an earlier
\* call is not over
InitShutdowns == \E k \in Resources : InitWith(CHOOSE b \in Builds : TRUE, k)

NextShutdowns ==
  \/ Idle /\ nops = 0 /\ StartRun(<<"a">>, NoContext)
  \/ \E r \in Runs, ok \in BOOLEAN : ProviderReturns(r, "a", ok)
  \/ RunJobs
  \/ UserTurn /\ (nops = 0 => memo["a"] # 0) /\ NodeOp("a", SHUTDOWN)
  \/ \E o \in Ops, ok \in BOOLEAN : DisposeReturns(o, "a", ok)
  \/ NodeJobs
  \/ GetResume

SpecShutdowns == InitShutdowns /\ [][NextShutdowns]_vars

\* run() of a and of b, which depends on a, in X and in Y, then shutdown()
\* and reset() of X and of a, each call made when the calls before it are
\* over
InitReset == \E k \in Resources : InitWith(CHOOSE b \in Builds : TRUE, k)

NextReset ==
  \/ Quiet /\ nops = 0
           /\ \E roots \in {<<"a">>, <<"b">>}, c \in Contexts : StartRun(roots, c)
  \/ \E r \in Runs, n \in Nodes, ok \in BOOLEAN : ProviderReturns(r, n, ok)
  \/ RunJobs
  \/ Quiet /\ \E to \in {SHUTDOWN, READY} : ContextOp("X", to)
  \/ Quiet /\ \E to \in {SHUTDOWN, READY} : NodeOp("a", to)
  \/ \E o \in Ops, n \in Nodes, ok \in BOOLEAN : DisposeReturns(o, n, ok)
  \/ NodeJobs
  \/ ContextJobs

SpecReset == InitReset /\ [][NextReset]_vars

\* run() of b and of c in a context with params of each form, and again
\* with the Map given to the run before, each call made when the calls
\* before it are over; a may be mocked
InitSameMap ==
  InitWith(CHOOSE b \in Builds : TRUE,
           [n \in Nodes |-> IF n = "b" THEN "ResourceDependency" ELSE "Dependency"])

NextSameMap ==
  \/ Quiet /\ \E roots \in {<<"b">>, <<"c">>}, form \in ParamForms,
                  keys \in {{}, {"a"}} :
                (form = "Map" \/ keys = {}) /\ RunWith(roots, form, keys, "X")
  \/ Quiet /\ \E roots \in {<<"b">>, <<"c">>} : RunSameMap(roots, "X")
  \/ \E r \in Runs, n \in Nodes, ok \in BOOLEAN : ProviderReturns(r, n, ok)
  \/ RunJobs

SpecSameMap == InitSameMap /\ [][NextSameMap]_vars

\* A then of the user's on the promise given to change(), registered after
\* the callback of change() on that promise: it runs after that callback has
\* set the status, and before the changingStatus promise resolves
UserThen(n) ==
  /\ queue # <<>>
  /\ Head(queue).k = "ChangeResolved" /\ Head(queue).n = n

\* get() and change() of an AsyncStatus, called by the user's code also in a
\* then on a promise given to change()
InitStatusThen == \E k \in Resources : InitWith(CHOOSE b \in Builds : TRUE, k)

NextStatusThen ==
  \/ UserTurn /\ \E to \in {READY, SHUTDOWN}, st \in {"user", "true"} :
                    Change("a", to, st)
  \/ UserTurn /\ Get("a")
  \/ UserThen("a") /\ \E to \in {READY, SHUTDOWN} : Change("a", to, "user")
  \/ \E o \in Ops, ok \in BOOLEAN : PromiseSettles(o, "a", ok)
  \/ ChangeCb
  \/ ChangeDone
  \/ ChangeResolved
  \/ GetResume
  \/ Got

SpecStatusThen == InitStatusThen /\ [][NextStatusThen]_vars

\* run() with one context, then shutdown() and reset() of the context, also
\* while providers of the runs are running; each provider and each dispose
\* hook that is running returns in the end, and each job queued is run
InitTeardown == \E k \in Resources : InitWith(CHOOSE b \in Builds : TRUE, k)

TeardownSteps ==
  \/ \E r \in Runs, n \in Nodes, ok \in BOOLEAN : ProviderReturns(r, n, ok)
  \/ RunJobs
  \/ \E o \in Ops, n \in Nodes, ok \in BOOLEAN : DisposeReturns(o, n, ok)
  \/ NodeJobs
  \/ ContextJobs

NextTeardown ==
  \/ Quiet /\ nops = 0 /\ StartRun(<<"c">>, "X")
  \/ Idle /\ \E to \in {SHUTDOWN, READY} : ContextOp("X", to)
  \/ TeardownSteps

SpecTeardown ==
  InitTeardown /\ [][NextTeardown]_vars /\ WF_vars(TeardownSteps)

\* run() in a context with a Map of params that has dependencies as keys
InitOverride == \E b \in Builds, k \in Resources : InitWith(b, k)

NextOverride ==
  \/ Quiet /\ \E roots \in {<<"b">>, <<"c">>}, keys \in {{}, {"a"}, {"b"}} :
                RunWith(roots, "Map", keys, "X")
  \/ \E r \in Runs, n \in Nodes, ok \in BOOLEAN : ProviderReturns(r, n, ok)
  \/ RunJobs

SpecOverride == InitOverride /\ [][NextOverride]_vars

\* run(), shutdown() and reset() of one node without edges, of either kind,
\* while its provider runs
InitDrain ==
  \E k \in Kinds :
    /\ k["b"] = "ResourceDependency" /\ k["c"] = "ResourceDependency"
    /\ InitWith(CHOOSE b \in Builds : TRUE, k)

NextDrain ==
  \/ Idle /\ StartRun(<<"a">>, NoContext)
  \/ \E r \in Runs, ok \in BOOLEAN : ProviderReturns(r, "a", ok)
  \/ RunJobs
  \/ UserTurn /\ \E to \in {SHUTDOWN, READY} : NodeOp("a", to)
  \/ \E o \in Ops, ok \in BOOLEAN : DisposeReturns(o, "a", ok)
  \/ NodeJobs
  \/ GetResume

SpecDrain == InitDrain /\ [][NextDrain]_vars

\* run(), shutdown() and reset() of the nodes, without a context
InitGate == \E k \in Kinds : InitWith(CHOOSE b \in Builds : TRUE, k)

NextGate ==
  \/ UserTurn /\ StartRun(<<"b">>, NoContext)
  \/ \E r \in Runs, n \in Nodes, ok \in BOOLEAN : ProviderReturns(r, n, ok)
  \/ RunJobs
  \/ UserTurn /\ \E n \in {"a", "b"}, to \in {SHUTDOWN, READY} : NodeOp(n, to)
  \/ \E o \in Ops, n \in Nodes, ok \in BOOLEAN : DisposeReturns(o, n, ok)
  \/ NodeJobs
  \/ GetResume

SpecGate == InitGate /\ [][NextGate]_vars

\* run() with one context, and shutdown() and reset() of the context, each
\* call made when the calls before it are over
InitContext == \E b \in Builds, k \in Resources : InitWith(b, k)

NextContext ==
  \/ Quiet /\ \E roots \in Roots : StartRun(roots, "X")
  \/ \E r \in Runs, n \in Nodes, ok \in BOOLEAN : ProviderReturns(r, n, ok)
  \/ RunJobs
  \/ Quiet /\ \E to \in {SHUTDOWN, READY} : ContextOp("X", to)
  \/ \E o \in Ops, n \in Nodes, ok \in BOOLEAN : DisposeReturns(o, n, ok)
  \/ NodeJobs
  \/ ContextJobs

SpecContext == InitContext /\ [][NextContext]_vars

\* run() with two contexts, and then shutdown() of the contexts
InitContexts == \E b \in Builds, k \in Resources : InitWith(b, k)

NextContexts ==
  \/ Quiet /\ nops = 0 /\ \E roots \in Roots, c \in Contexts : StartRun(roots, c)
  \/ \E r \in Runs, n \in Nodes, ok \in BOOLEAN : ProviderReturns(r, n, ok)
  \/ RunJobs
  \/ Quiet /\ \E c \in Contexts : ContextOp(c, SHUTDOWN)
  \/ \E o \in Ops, n \in Nodes, ok \in BOOLEAN : DisposeReturns(o, n, ok)
  \/ NodeJobs
  \/ ContextJobs

SpecContexts == InitContexts /\ [][NextContexts]_vars

\* ---------------------------------------------------------------- run
\* C1: within one call of run() the provider of a node is called at most
\* once, also when the node is reached by several paths or several roots, and
\* the nodes that depend on it are all given the same value.
C1_AtMostOncePerRun ==
  \A r \in Runs, n \in Nodes :
    /\ invoked[r][n] <= 1
    /\ \A p, q \in Nodes :
         \A i \in DOMAIN args[r][p], j \in DOMAIN args[r][q] :
           edgesAndValues[p][i] = n /\ edgesAndValues[q][j] = n
             => args[r][p][i] = args[r][q][j]

\* a run of the roots a and c has the value of c: a, not memoized, was
\* reached as a root, as an edge of b and as an edge of c, and called once
C1_Witness ==
  \E r \in Runs :
    /\ runRoots[r] = <<"a", "c">>
    /\ kind["a"] = "Dependency"
    /\ cache[r]["c"].st = "ok"
    /\ invoked[r]["a"] = 1
    /\ args[r]["b"] # <<>> /\ args[r]["c"] # <<>>

\* C2: the provider of a node is called by a run only when each of its edges
\* has resolved in that run, and its arguments are the values of its edges in
\* the order that dependsOn was given.
C2_TopologicalArguments ==
  \A r \in Runs, n \in Nodes :
    invoked[r][n] > 0 =>
      /\ Len(args[r][n]) = Len(edgesAndValues[n])
      /\ \A i \in DOMAIN edgesAndValues[n] :
           /\ cache[r][edgesAndValues[n][i]].st = "ok"
           /\ args[r][n][i] = cache[r][edgesAndValues[n][i]].val
           /\ args[r][n][i].t = "value"
           /\ args[r][n][i].n = edgesAndValues[n][i]

\* the provider of c, which depends on a and b in this order, was called
C2_Witness ==
  \E r \in Runs :
    /\ invoked[r]["c"] = 1
    /\ edgesAndValues["c"] = <<"a", "b">>
    /\ args[r]["c"][1].n = "a" /\ args[r]["c"][2].n = "b"

\* The provider of n never failed
NoFailure(n) == \A r \in Runs : output[r][n] # "err"

\* C7: with no shutdown, no reset and no failure of its provider, the provider
\* of a Resource is called once however many runs reach it, and each run has
\* the value of that one call.
C7_ResourceMemoized ==
  \A n \in Nodes :
    IsResource(n) /\ NoFailure(n) =>
      /\ calls[n] <= 1
      /\ \A r \in Runs : cache[r][n].st = "ok" => cache[r][n].val = Value(n, 1)

\* the second run found in memo the settled promise of the first one
C7_Witness ==
  /\ IsResource("c")
  /\ cache[1]["c"].st = "ok" /\ cache[2]["c"].st = "ok"
  /\ subscribers[1]["c"] = <<1>>
  /\ invoked[1]["c"] = 1 /\ invoked[2]["c"] = 0

\* C8: runs that are in progress together each call the provider of a
\* Transient node at most once, so at most once per run in total; the
\* provider of a Resource is called by one of them only, and they have the
\* same value of it.
C8_ConcurrentRuns ==
  \A n \in Nodes :
    IF IsResource(n)
    THEN NoFailure(n) =>
           /\ Cardinality({r \in Runs : invoked[r][n] > 0}) <= 1
           /\ \A r, s \in Runs :
                cache[r][n].st = "ok" /\ cache[s][n].st = "ok"
                  => cache[r][n] = cache[s][n]
    ELSE /\ \A r \in Runs : invoked[r][n] <= 1
         /\ calls[n] <= nruns

\* two runs at once: each called the Transient a, the second found in memo of
\* the Resource b the promise of the first, still pending, and both have its
\* value
C8_Witness ==
  /\ kind["a"] = "Dependency" /\ IsResource("b")
  /\ calls["a"] = 2 /\ calls["b"] = 1
  /\ subscribers[1]["b"] = <<1, 2>>
  /\ cache[1]["b"].st = "ok" /\ cache[2]["b"] = cache[1]["b"]

\* C9: when the provider of a Resource has failed and the failure has reached
\* the promise of getValue, memo does not hold that promise, and the failure
\* is given only to the runs that were waiting for it: a later run calls the
\* provider again.
C9_FailureNotMemoized ==
  \A r \in Runs, n \in Nodes :
    IsResource(n) /\ promise[r][n].st = "err" =>
      /\ memo[n] # r
      /\ \A s \in Runs :
           cache[s][n] = promise[r][n] => s \in Range(subscribers[r][n])

\* the provider of a Resource failed in the first run, the second run called
\* it again and has its value
C9_Witness ==
  \E n \in Nodes :
    /\ IsResource(n)
    /\ promise[1][n].st = "err"
    /\ invoked[2][n] = 1
    /\ cache[2][n].st = "ok"

\* ------------------------------------------------- shutdown and reset
\* C3: Context.shutdown() and Context.reset() call shutdown()/reset() of a
\* member only when the shutdown()/reset() of each member that depends on it
\* has settled.
C3_DependentsFirst ==
  \A o \in Ops, n \in Nodes :
    op[o].type = "context" /\ work[o][n].st # "none" =>
      \A d \in Range(inverseEdges[n]) \cap memberAtCall[o] : WorkSettled(o, d)

\* The operation o is over: its promise settled and nothing of it is left
Over(o) == opState[o] \in {"resolved", "rejected"} /\ Quiet

\* C4: Context.shutdown() and Context.reset() call shutdown()/reset() of each
\* node that was a member at the call, also when the dispose hook of a member
\* fails, and leave the context empty.
C4_EveryMemberTransitioned ==
  \A o \in Ops :
    op[o].type = "context" /\ Over(o) =>
      /\ \A n \in memberAtCall[o] : work[o][n].st # "none"
      /\ op[o].after = nruns => startedDependencies[op[o].c] = <<>>

\* The provider of n returned a value to some run
Started(n) == \E r \in Runs : output[r][n] = "ok"

\* C5: while a context holds a started Resource, the shutdown of another
\* context does not call its dispose hook and leaves it READY; when the
\* contexts that held it have all been shut down, its dispose hook has been
\* called once.
C5_LastContextDisposes ==
  \A n \in Nodes :
    IsResource(n) /\ Started(n) =>
      /\ contextItems[n] # {} => status[n] = READY /\ disposed[n] = 0
      /\ disposed[n] <= 1
      /\ (/\ contextItems[n] = {}
          /\ \E o, x \in Ops :
               op[o].c # op[x].c /\ n \in memberAtCall[o] \cap memberAtCall[x]
          /\ \A o \in Ops : opState[o] # "none" => Over(o))
           => disposed[n] = 1

\* C6: a getValue called when the gate of the node is SHUTDOWN, and no reset()
\* of the node is in progress, does not call the provider and gives the error
\* "The dependency is now shutdown".
C6_ShutdownGate ==
  \A r \in Runs, n \in Nodes :
    seen[r][n] = SHUTDOWN =>
      /\ invoked[r][n] = 0
      /\ cache[r][n] \in {Pending, Settlement("err", ShutdownError)}

\* The run r has the values of its roots
Resolved(r) ==
  /\ runRoots[r] # <<>>
  /\ \A i \in DOMAIN runRoots[r] : cache[r][runRoots[r][i]].st = "ok"

\* C10: run, Context.reset(), run of the same roots: the provider of each
\* node reached was called twice, each node is READY, and memo of each
\* Resource is the promise of the second run.
C10_RunResetRun ==
  \A o \in Ops :
    (/\ op[o].type = "context" /\ op[o].to = READY /\ op[o].after = 1
     /\ \A x \in Ops \ {o} : op[x].type = "none" \/ op[x].after = 0
     /\ nruns >= 2 /\ runRoots[2] = runRoots[1]
     /\ Resolved(1) /\ Resolved(2))
      => \A n \in Nodes :
           cache[1][n].st # "absent" =>
             /\ calls[n] = 2
             /\ status[n] = READY
             /\ IsResource(n) => memo[n] = 2

\* The Map of params of run r has the dependency n as a key
Mocked(r, n) == n \in Nodes /\ n \in paramsToMap(runParams[r].form, runParams[r].keys)

\* C11: when params has a node as a key, run() resolves the node to the value
\* of the key (for the caller when it is a root, for its dependents when it
\* is an edge), does not call its provider, and does not add it to the
\* context given to run()
C11_OverrideBypass ==
  /\ \A r \in 1..nruns, n \in Nodes :
       Mocked(r, n) =>
         /\ invoked[r][n] = 0
         /\ cache[r][n] = Settlement("ok", Supplied(n))
         /\ \A p \in Nodes : \A i \in DOMAIN edgesAndValues[p] :
              edgesAndValues[p][i] = n /\ seen[r][p] # "none"
                => args[r][p][i] = Supplied(n)
  /\ \A n \in Nodes, c \in Contexts :
       (nruns > 0 /\ \A r \in 1..nruns : Mocked(r, n))
         => n \notin Range(startedDependencies[c]) /\ c \notin contextItems[n]

\* C12: the promise that shutdown() or reset() of a node waits for settles,
\* and the dispose hook of a ResourceDependency is called, only after every
\* call of the provider of the node that was not settled when the transition
\* started has settled
C12_WaitsForInFlight ==
  \A o \in Ops, n \in Nodes :
    work[o][n].st \in {"dispose", "true", "err"} =>
      \A r \in work[o][n].running : output[r][n] \in {"ok", "err"}

\* A transition that found a call of the provider not settled has completed
C12_Witness ==
  \E o \in Ops, n \in Nodes :
    /\ work[o][n].st = "true"
    /\ work[o][n].running # {}
    /\ IsResource(n) /\ disposed[n] > 0
    /\ opState[o] = "resolved"

\* The nodes that depend on n, directly or through other nodes
RECURSIVE DependentsWithin(_, _)
DependentsWithin(S, k) ==
  IF k = 0 THEN S
  ELSE DependentsWithin(
         S \cup {m \in Nodes : \E x \in S : x \in Range(edgesAndValues[m])},
         k - 1)
TransitiveDependents(n) == DependentsWithin({n}, Cardinality(Nodes)) \ {n}

\* The provider of n failed for run r: the promise of n in the cache of r is
\* rejected with an error thrown by the provider of n
FailedIn(r, n) ==
  /\ cache[r][n].st = "err"
  /\ cache[r][n].val.t = "error" /\ cache[r][n].val.n = n

\* C13: when the provider of a node fails in a run, the run does not call the
\* provider of any node that depends on it, directly or not; the promise of
\* such a node is never fulfilled and, once settled, is rejected with the
\* error of the failed provider; when nothing is left to do the promise of
\* every such root is rejected with it; the run called the failed provider
\* at most once
C13_FailurePropagation ==
  \A r \in Runs, n \in Nodes :
    FailedIn(r, n) =>
      /\ invoked[r][n] <= 1
      /\ \A m \in TransitiveDependents(n) :
           /\ invoked[r][m] = 0
           /\ cache[r][m].st # "ok"
           /\ cache[r][m].st = "err" => cache[r][m] = cache[r][n]
           /\ Quiet /\ m \in Range(runRoots[r]) => cache[r][m] = cache[r][n]

\* a failed in a run asked for a and c; b and c both asked for a; the
\* promise of c is rejected with the error of a
C13_Witness ==
  \E r \in Runs :
    /\ runRoots[r] = <<"a", "c">>
    /\ FailedIn(r, "a") /\ invoked[r]["a"] = 1
    /\ {"b", "c"} \subseteq Range(dependents[r]["a"])
    /\ cache[r]["c"] = Settlement("err", ProviderError("a", outputK[r]["a"]))
    /\ Quiet

\* The nodes that n depends on, directly or through other nodes
TransitiveDependencies(n) == {m \in Nodes : n \in TransitiveDependents(m)}

\* Run r got to node m
Reached(r, m) == cache[r][m].st # "absent"

\* C14: the failure of a provider fails only the nodes that depend on it: in a
\* run with a context, the promise of a node is rejected only with the error
\* of its own provider or of the provider of a node it depends on (or because
\* of a shutdown); when nothing is left to do, a node reached by the run of
\* which neither it nor a node it depends on failed has had its provider
\* called (or has the memoized value) and the context has emitted SUCCESS_RUN
\* for it
C14_FailureIsolation ==
  \A r \in Runs, m \in Nodes :
    /\ cache[r][m].st = "err" =>
         \/ cache[r][m].val = ShutdownError
         \/ /\ cache[r][m].val.t = "error"
            /\ cache[r][m].val.n \in {m} \cup TransitiveDependencies(m)
    /\ ( /\ Quiet
         /\ Reached(r, m)
         /\ \E n \in Nodes : FailedIn(r, n)
         /\ \A x \in {m} \cup TransitiveDependencies(m) : cache[r][x].st # "err" )
       => /\ cache[r][m].st = "ok"
          /\ invoked[r][m] = 1 \/ promise[r][m] = Absent
          /\ \E i \in DOMAIN events :
               events[i] = Event("successRun", r, m, runCtx[r])

\* in a run asked for a and c the provider of b failed: c is rejected with
\* the error of b, a has its value and its SUCCESS_RUN
C14_Witness ==
  \E r \in Runs :
    /\ runRoots[r] = <<"a", "c">>
    /\ Quiet
    /\ FailedIn(r, "b")
    /\ cache[r]["c"] = cache[r]["b"]
    /\ cache[r]["a"].st = "ok" /\ invoked[r]["a"] = 1
    /\ \E i \in DOMAIN events : events[i] = Event("successRun", r, "a", "X")
    /\ \E i \in DOMAIN events : events[i] = Event("failRun", r, "c", "X")

\* params of run r has the key p: a plain object has string keys only
Present(r, p) == p \in paramsToMap(runParams[r].form, runParams[r].keys)

\* C15: a parameter whose key is in params resolves to the value given, its
\* placeholder is never executed, and the node that declared it is called
\* with that value; a parameter reached by a run whose key is not in params
\* fails with "Missing argument: <key>", the node that declared it is not
\* called and, when nothing is left to do, is rejected with that error
C15_ParameterInjection ==
  \A r \in 1..nruns, p \in Names :
    /\ Present(r, p) =>
         /\ cache[r][p] = Settlement("ok", Supplied(p))
         /\ \A n \in Nodes : \A i \in DOMAIN edgesAndValues[n] :
              edgesAndValues[n][i] = p /\ invoked[r][n] > 0
                => args[r][n][i] = Supplied(p)
    /\ ~Present(r, p) =>
         /\ cache[r][p].st \in {"ok", "err"}
              => cache[r][p] = Settlement("err", MissingArgument(p))
         /\ \A n \in Nodes :
              p \in Range(edgesAndValues[n]) /\ Reached(r, n) =>
                /\ invoked[r][n] = 0
                /\ cache[r][n].st # "ok"
                /\ Quiet => cache[r][n] = Settlement("err", MissingArgument(p))

\* ------------------------------------------------------- AsyncStatus
\* The calls of change() on the status of n made before the call o
ChangesBefore(o, n) ==
  {x \in Ops : x < o /\ op[x].type = "change" /\ op[x].n = n}

\* The last of a set of calls
Last(S) == CHOOSE x \in S : \A y \in S : y <= x

\* C16: the promise of a get() is resolved only when every transition
\* enqueued by a change() before the call of get() has completed, and with the
\* status set by the last of them
C16_GetAfterTransitions ==
  \A g \in Ops :
    ( /\ op[g].type = "get"
      /\ opState[g] # "pending"
      /\ ChangesBefore(g, op[g].n) # {} )
    => /\ \A x \in ChangesBefore(g, op[g].n) : change[x][op[g].n] = "applied"
       /\ opState[g] = op[Last(ChangesBefore(g, op[g].n))].to

\* C17: the transitions are applied in the order of the calls of change(),
\* and when they are all over the status is the one of the last call
C17_ChangeSerializes ==
  \A n \in Nodes :
    LET all == ChangesBefore(nops + 1, n)
    IN /\ \A x, y \in all :
            x < y /\ change[y][n] = "applied" => change[x][n] = "applied"
       /\ ( /\ all # {}
            /\ Idle
            /\ \A x \in all : WorkSettled(x, n) )
          => status[n] = op[Last(all)].to

\* ------------------------------------------------------ dispose hooks
\* The events of operation o about node n
EventsOf(o, n) ==
  {events[i].type : i \in {j \in DOMAIN events :
                             events[j].id = o /\ events[j].n = n}}
     \cap {"successShutdown", "failShutdown", "successReset", "failReset"}

\* C18: when the dispose hook of a started Resource fails in a shutdown
\* (reset), the memo is empty and no SUCCESS_SHUTDOWN (SUCCESS_RESET) is
\* emitted for the node; when nothing is left to do the status is SHUTDOWN
\* (READY), the context has emitted FAIL_SHUTDOWN (FAIL_RESET) for the node
\* and nothing else, and the promise returned by shutdown()/reset() is rejected
C18_DisposeFailureAdvances ==
  \A o \in Ops, n \in Nodes :
    work[o][n].st = "err" =>
      LET name == IF op[o].to = SHUTDOWN THEN "Shutdown" ELSE "Reset"
      IN /\ memo[n] = 0
         /\ EventsOf(o, n) \subseteq {"fail" \o name}
         /\ Quiet =>
              /\ (\A x \in Ops : x > o => work[x][n].st = "none")
                   => status[n] = op[o].to
              /\ op[o].type = "context" => EventsOf(o, n) = {"fail" \o name}
              /\ opState[o] = "rejected"

\* the dispose hook of a node failed in a shutdown of the context
C18_Witness ==
  \E o \in Ops, n \in Nodes :
    /\ work[o][n].st = "err" /\ disposed[n] > 0
    /\ op[o].type = "context" /\ op[o].to = SHUTDOWN
    /\ Quiet
    /\ status[n] = SHUTDOWN
    /\ opState[o] = "rejected"
    /\ EventsOf(o, n) = {"failShutdown"}

\* The job at hand is the part of n.shutdown(), called by the user, that
\* follows its await, and a context has n
HeldShutdown(o, n) ==
  /\ queue # <<>> /\ Head(queue).k = "Transition"
  /\ Head(queue).i = o /\ Head(queue).n = n
  /\ op[o].type = "node" /\ op[o].to = SHUTDOWN
  /\ contextItems[n] # {}

\* C19: shutdown() of a node that a context has does nothing: its promise
\* resolves false; the status, the memo, the started functions and the
\* members of the contexts stay as they are, and the dispose hook is not called
C19_HeldShutdownNoOp ==
  [][\A o \in Ops, n \in Nodes :
       HeldShutdown(o, n) =>
         /\ work'[o][n].st = "false"
         /\ UNCHANGED <<status, changingStatus, waiting, memo, startedFunctions,
                        contextItems, startedDependencies, disposed>>]_vars

\* shutdown() of b, started in a context, has resolved false: b is ready,
\* memoized and a member of the context, and was not disposed
C19_Witness ==
  \E o \in Ops :
    /\ op[o].type = "node" /\ op[o].n = "b" /\ op[o].to = SHUTDOWN
    /\ work[o]["b"].st = "false" /\ opState[o] = "resolved"
    /\ contextItems["b"] = {"X"} /\ "b" \in Range(startedDependencies["X"])
    /\ status["b"] = READY /\ memo["b"] # 0 /\ disposed["b"] = 0

\* ------------------------------------------------------------ diamond
\* run(d) and then run(d) again have both resolved, and nothing else ran
TwoRunsOver == Quiet /\ nruns = 2 /\ Resolved(1) /\ Resolved(2)

\* C20 as stated: after run(d) and a second run(d) the providers were called
\* a: 1, b: 1, c: 1, d: 2 times: the second run does not call the provider
\* of a
C20_DiamondCountsStated ==
  TwoRunsOver =>
    calls = [n \in Nodes |-> IF n = "d" THEN 2 ELSE 1]

\* C20, amended: after run(d) and a second run(d) the providers were called
\* a: 2, b: 1, c: 1, d: 2 times: the second run calls the providers of a and
\* d only, it resolves the edges of b and c before it finds them memoized, and
\* d is given the memoized values of b and c
C20_DiamondCounts ==
  TwoRunsOver =>
    /\ calls = [n \in Nodes |-> IF n \in {"a", "d"} THEN 2 ELSE 1]
    /\ invoked[2] = [n \in Nodes |-> IF n \in {"a", "d"} THEN 1 ELSE 0]
    /\ args[2]["d"] = <<Value("b", 1), Value("c", 1)>>
    /\ cache[2]["d"] = Settlement("ok", Value("d", 2))

\* both runs of d have resolved
C20_Witness ==
  /\ TwoRunsOver
  /\ runRoots[1] = <<"d">> /\ runRoots[2] = <<"d">>
  /\ invoked[1] = [n \in Nodes |-> 1]
  /\ calls["d"] = 2

\* ------------------------------------------------------ default context
\* The provider of n was called by run r, or r was given its memoized value
Executed(r, n) == invoked[r][n] > 0 \/ (Reached(r, n) /\ cache[r][n].st = "ok")

\* C21: a node executed by a run() that was given no context is a member of a
\* context, the default one, whose shutdown() then shuts the node down
C21_DefaultContext ==
  \A r \in 1..nruns, n \in Nodes :
    runCtx[r] = NoContext /\ Executed(r, n) =>
      \E c \in Contexts :
        n \in Range(startedDependencies[c]) /\ c \in contextItems[n]

\* ------------------------------------------------------------ listeners
\* The events of the kinds in types that were emitted for node n by the run
\* or the operation i
Emitted(types, i, n) ==
  {j \in DOMAIN events :
     events[j].type \in types /\ events[j].id = i /\ events[j].n = n}

\* C22: what a listener throws is discarded: one event at most is emitted for
\* a node by a run, SUCCESS_RUN when its promise is fulfilled and FAIL_RUN
\* when it is rejected, and one at most by a shutdown (reset) of a context,
\* SUCCESS_SHUTDOWN (SUCCESS_RESET) when the shutdown (reset) of the node
\* resolved true and FAIL_SHUTDOWN (FAIL_RESET) when it rejected
C22_ListenerErrorsDiscarded ==
  /\ \A r \in Runs, n \in Nodes :
       /\ Cardinality(Emitted({"successRun", "failRun"}, r, n)) <= 1
       /\ Emitted({"failRun"}, r, n) # {} => cache[r][n].st = "err"
       /\ Emitted({"successRun"}, r, n) # {} => cache[r][n].st = "ok"
  /\ \A o \in Ops, n \in Nodes :
       LET name == IF op[o].to = SHUTDOWN THEN "Shutdown" ELSE "Reset"
       IN /\ Cardinality(Emitted({"success" \o name, "fail" \o name}, o, n)) <= 1
          /\ Emitted({"fail" \o name}, o, n) # {} => work[o][n].st = "err"
          /\ Emitted({"success" \o name}, o, n) # {} => work[o][n].st = "true"

\* -------------------------------------------------------------- timings
\* The records of node n in the timings of run r
TimingsOf(r, n) == {i \in DOMAIN timings[r] : timings[r][i].dependency = n}

\* Run r, given a context, did not find n in its cache, and the promise made
\* for n has settled and has been reacted to
SettledMiss(r, n) ==
  /\ runCtx[r] # NoContext
  /\ ~Mocked(r, n)
  /\ cache[r][n].st \in {"ok", "err"}
  /\ Quiet

\* C23 as stated: a node executed by a run has one timing record when its
\* promise has settled, whether it is fulfilled or rejected, and never more
\* than one
C23_TimingRecordsStated ==
  \A r \in Runs, n \in Nodes :
    /\ Cardinality(TimingsOf(r, n)) <= 1
    /\ SettledMiss(r, n) => Cardinality(TimingsOf(r, n)) = 1

\* C23, amended: a node executed by a run with a context has one timing
\* record, with the node and the context, when its promise is fulfilled, and
\* none when it is rejected; no node has more than one record in a run, and
\* the record of a node comes after the records of its edges
C23_TimingRecords ==
  \A r \in Runs, n \in Nodes :
    /\ Cardinality(TimingsOf(r, n)) <= 1
    /\ \A i \in TimingsOf(r, n) :
         /\ timings[r][i] = Timing(n, runCtx[r])
         /\ cache[r][n].st = "ok" /\ ~Mocked(r, n)
    /\ SettledMiss(r, n) =>
         Cardinality(TimingsOf(r, n)) = (IF cache[r][n].st = "ok" THEN 1 ELSE 0)
    /\ \A i \in TimingsOf(r, n), j \in DOMAIN timings[r] :
         timings[r][j].dependency \in Range(edgesAndValues[n]) => j < i

\* in a run asked for a and c the provider of b failed: the timings have the
\* record of a and no record of b and c
C23_Witness ==
  \E r \in Runs :
    /\ runRoots[r] = <<"a", "c">>
    /\ Quiet
    /\ FailedIn(r, "b") /\ invoked[r]["b"] = 1
    /\ cache[r]["c"].st = "err"
    /\ timings[r] = <<Timing("a", "X")>>

\* --------------------------------------------------------- execution id
\* C24: the id of a run is the one given in params under EXECUTION_ID, or
\* else one made for the run, and every SUCCESS_RUN and FAIL_RUN event of the
\* run has it as its executionId
C24_EventsCarryExecutionId ==
  /\ \A r \in 1..nruns :
       executionId[r] =
         IF EXECUTION_ID \in runParams[r].keys
         THEN Supplied(EXECUTION_ID) ELSE RandomUUID(r)
  /\ \A i \in DOMAIN events :
       events[i].type \in {"successRun", "failRun"}
         => events[i].executionId = executionId[events[i].id]

\* ------------------------------------------- dependencies and parameters
\* The edges of n, the dependencies first and the parameters after them
NodesThenParameters(n) ==
  filterDependency(edgesAndValues[n])
    \o SelectSeq(edgesAndValues[n], LAMBDA d : d \notin Nodes)

\* C25 as stated: the provider of a node is called with the values of its
\* dependencies, in the order of declaration, followed by the values of its
\* parameters
C25_NodesThenParametersStated ==
  \A r \in Runs, n \in Nodes :
    invoked[r][n] > 0 =>
      /\ Len(args[r][n]) = Len(edgesAndValues[n])
      /\ \A i \in DOMAIN args[r][n] :
           args[r][n][i] = cache[r][NodesThenParameters(n)[i]].val

\* C25, amended: the provider of a node is called with one argument for each
\* edge, dependency or parameter alike, in the order of declaration: the
\* value of the dependency, or the value given in params for the parameter
C25_DeclarationOrder ==
  \A r \in Runs, n \in Nodes :
    invoked[r][n] > 0 =>
      /\ Len(args[r][n]) = Len(edgesAndValues[n])
      /\ \A i \in DOMAIN args[r][n] :
           LET e == edgesAndValues[n][i]
           IN /\ args[r][n][i] = cache[r][e].val
              /\ e \in Names => /\ args[r][n][i] = Supplied(e)
                                /\ Present(r, e)
              /\ e \in Nodes => /\ args[r][n][i].t = "value"
                                /\ args[r][n][i].n = e

\* the provider of c, declared with dependsOn(a, token, b), was called
\* with the value of a, the value given for token and the value of b
C25_Witness ==
  \E r \in Runs :
    /\ edgesAndValues["c"] = <<"a", "token", "b">>
    /\ invoked[r]["c"] = 1 /\ invoked[r]["b"] = 1
    /\ args[r]["c"][1].n = "a" /\ args[r]["c"][1].t = "value"
    /\ args[r]["c"][2] = Supplied("token")
    /\ args[r]["c"][3].n = "b" /\ args[r]["c"][3].t = "value"
    /\ args[r]["b"][1] = Supplied("greeting")

\* ---------------------------------------------------------------- graph
\* C26: after any calls of dependsOn, also several on one node, a node A has
\* the node B among its edges if and only if B has A among its inverse edges
C26_EdgeSymmetry ==
  \A A, B \in Nodes :
    B \in Range(filterDependency(edgesAndValues[A])) <=> A \in Range(inverseEdges[B])

\* ----------------------------------------------------------- membership
\* C27: in every state, whatever run(), Context.shutdown() and
\* Context.reset() were called with several contexts, a node is among the
\* started dependencies of a context if and only if the context is among the
\* context items of the node
C27_MembershipSymmetry ==
  \A n \in Nodes, c \in Contexts :
    n \in Range(startedDependencies[c]) <=> c \in contextItems[n]

\* a ran in both contexts; the shutdown of X, called while the run of Y was
\* in progress, removed a and b from X, and Y still has a
C27_Witness ==
  \E o \in Ops :
    /\ op[o].type = "context" /\ op[o].c = "X" /\ op[o].to = SHUTDOWN
    /\ memberAtCall[o] = {"a", "b"}
    /\ contextItems["a"] = {"Y"} /\ contextItems["b"] = {}
    /\ startedDependencies["X"] = <<>>
    /\ startedDependencies["Y"] = <<"a">>
    /\ \E r \in Runs : runCtx[r] = "Y" /\ r <= op[o].after
                          /\ cache[r]["a"].st = "pending"

\* ----------------------------------------------------------- enrolment
\* The dependencies that run r got to: its roots, and the edges of the
\* dependencies it did not find in its cache
VisitedBy(r) ==
  (Range(runRoots[r]) \cup
     UNION {Range(edgesAndValues[p]) : p \in {q \in Nodes : Reached(r, q) /\ ~Mocked(r, q)}})
    \cap Nodes

\* The context c had n at some time
EverIn(c, n) ==
  \/ n \in Range(startedDependencies[c])
  \/ \E o \in Ops : op[o].type = "context" /\ op[o].c = c /\ n \in memberAtCall[o]

\* C28: run() with a context adds to the context the dependencies it gets
\* to, its roots and their edges, and nothing else, never a parameter;
\* shutdown() and reset() of the context then act on members only: of a
\* dependency that the context never had, also one that depends on a member,
\* the status stays READY, the memo stays, and the dispose hook is not called
C28_OnlyMembers ==
  /\ \A c \in Contexts :
       /\ Range(startedDependencies[c]) \subseteq Nodes
       /\ nops = 0 =>
            Range(startedDependencies[c]) =
              UNION {VisitedBy(r) : r \in {x \in 1..nruns : runCtx[x] = c}}
  /\ \A n \in Nodes : contextItems[n] \subseteq Contexts
  /\ \A n \in Nodes :
       (\A c \in Contexts : ~EverIn(c, n)) =>
         /\ status[n] = READY /\ changingStatus[n] = 0
         /\ disposed[n] = 0
         /\ \A o \in Ops : work[o][n] = NoWork /\ rfd[o][n] = NoCall
         /\ \A r \in Runs : promise[r][n].st = "ok" => memo[n] = r

\* c, which depends on a, was started without a context; b, with its
\* parameter, was run in X; the shutdown of X disposed b and a and left c
C28_Witness ==
  \E o \in Ops :
    /\ op[o].type = "context" /\ op[o].to = SHUTDOWN /\ Over(o)
    /\ memberAtCall[o] = {"a", "b"}
    /\ "c" \in Range(inverseEdges["a"])
    /\ disposed["a"] = 1 /\ disposed["b"] = 1 /\ status["a"] = SHUTDOWN
    /\ memo["c"] # 0 /\ promise[memo["c"]]["c"].st = "ok"
    /\ status["c"] = READY /\ disposed["c"] = 0

\* ------------------------------------------------- never-started Resource
\* _shutdownOrReset of the call o is about to go on after its await, for a
\* Resource n without a memo that no context has, and in a shutdown() the
\* status it read is not SHUTDOWN
FindsNeverStarted(o, n) ==
  /\ queue # <<>> /\ Head(queue).k = "Transition"
  /\ Head(queue).i = o /\ Head(queue).n = n
  /\ IsResource(n) /\ memo[n] = 0
  /\ op[o].to = SHUTDOWN => contextItems[n] = {} /\ Head(queue).x # SHUTDOWN

\* The call o changed the status of n with a promise of false
WasNeverStarted(o, n) ==
  IsResource(n) /\ change[o][n] # "none" /\ work[o][n].st = "false"

\* An event of shutdown or reset of n emitted by the call o
TransitionEvents(o, n) ==
  {i \in DOMAIN events :
     /\ events[i].id = o /\ events[i].n = n
     /\ events[i].type \in
          {"successShutdown", "successReset", "failShutdown", "failReset"}}

\* The calls that changed the status of n after the call o did, and before
\* the run r was started
ChangedSince(o, n, r) ==
  {x \in Ops : x > o /\ op[x].after < r /\ change[x][n] # "none"}

\* C29: shutdown() or reset() of a Resource that has no memo (in a shutdown:
\* that no context has, and that is not SHUTDOWN) does not call the dispose
\* hook and its promise resolves with false, but status.change is called:
\* the status becomes the one asked for; no event of success is emitted for
\* it, and a run after such a shutdown gets "The dependency is now shutdown"
\* without a call of the provider.
C29_NeverStartedAdvances ==
  /\ [][\A o \in Ops, n \in Nodes :
          FindsNeverStarted(o, n) =>
            /\ work'[o][n] = WorkIs("false")
            /\ disposed' = disposed
            /\ status'[n] = CHANGING /\ changingStatus'[n] = o]_vars
  /\ [](\A o \in Ops, n \in Nodes :
          WasNeverStarted(o, n) =>
            /\ opState[o] # "rejected" /\ rfd[o][n].st # "failed"
            /\ Quiet /\ op[o].type = "node" => opState[o] = "resolved"
            /\ TransitionEvents(o, n) = {}
            /\ Quiet /\ ChangedSince(o, n, MaxRuns + 1) = {}
                 => status[n] = op[o].to
            /\ \A r \in 1..nruns :
                 (/\ op[o].to = SHUTDOWN /\ op[o].after < r
                  /\ ChangedSince(o, n, r) = {}
                  /\ n \in Range(runRoots[r]))
                   => /\ invoked[r][n] = 0
                      /\ cache[r][n].st # "ok"
                      /\ Quiet => cache[r][n] = Settlement("err", ShutdownError))

\* a was never started; a.shutdown() resolved, a is SHUTDOWN, its dispose hook
\* was not called, and the run of a made after it failed
C29_Witness ==
  \E o \in Ops, r \in Runs :
    /\ op[o].type = "node" /\ op[o].to = SHUTDOWN /\ op[o].after < r
    /\ WasNeverStarted(o, "a") /\ opState[o] = "resolved"
    /\ status["a"] = SHUTDOWN /\ disposed["a"] = 0 /\ calls["a"] = 0
    /\ runRoots[r] = <<"a">>
    /\ cache[r]["a"] = Settlement("err", ShutdownError)
\* ------------------------------------------------- concurrent transitions
\* shutdown() or reset() of n called by the user as the call o
CallOf(o, n) == op[o].type = "node" /\ op[o].n = n

\* C30: when shutdown() or reset() of a node is called after another call
\* of them on the node that is carried out, its promise settles only when
\* the transition of the first call is over (the providers in flight have
\* settled, the dispose hook has returned, and the status is set), and the
\* status it reads after its await is the one the first call set.
C30_SecondCallWaits ==
  \A o \in Ops, n \in Nodes :
    (/\ o + 1 \in Ops /\ CallOf(o, n) /\ CallOf(o + 1, n)
     /\ change[o][n] # "none")
      => /\ opState[o + 1] \in {"resolved", "rejected"}
              => change[o][n] = "applied"
         /\ (/\ queue # <<>> /\ Head(queue).k = "Transition"
             /\ Head(queue).i = o + 1)
              => Head(queue).x = op[o].to
\* ------------------------------------------------- order of the records
\* The nodes that n depends on, directly or through other nodes, found by
\* following the edges from n
RECURSIVE EdgesWithin(_, _)
EdgesWithin(S, k) ==
  IF k = 0 THEN S
  ELSE EdgesWithin(
         S \cup (UNION {Range(edgesAndValues[e]) : e \in S} \cap Nodes), k - 1)
Below(n) ==
  EdgesWithin(Range(edgesAndValues[n]) \cap Nodes, Cardinality(Nodes) - 2)

\* The positions in events of the SUCCESS_RUN events that run r emitted for n
SuccessesOf(r, n) == Emitted({"successRun"}, r, n)

\* C31: in a run with a context the timing record and the SUCCESS_RUN event
\* of a node are made when its promise has been fulfilled and before the
\* provider of a node that depends on it is called: when the provider of n
\* has been called in run r, each node that n depends on, directly or not, and
\* that the run executed has its record and its event; the record and the
\* event of an edge come before those of the node that has the edge.
C31_RecordsBeforeDependents ==
  \A r \in 1..nruns, n \in Nodes :
    (runCtx[r] # NoContext /\ Reached(r, n)) =>
      LET called == \/ invoked[r][n] > 0
                    \/ \E i \in DOMAIN queue :
                         queue[i].k = "Func" /\ queue[i].i = r /\ queue[i].n = n
          mine == TimingsOf(r, n)
          won == SuccessesOf(r, n)
      IN /\ mine \cup won # {} => cache[r][n].st = "ok"
         /\ called =>
              \A e \in Below(n) :
                ~Mocked(r, e) => TimingsOf(r, e) # {} /\ SuccessesOf(r, e) # {}
         /\ mine \cup won # {} =>
              \A e \in Range(edgesAndValues[n]) \cap Nodes :
                /\ \A i \in TimingsOf(r, e), j \in mine : i < j
                /\ \A i \in SuccessesOf(r, e), j \in won : i < j

\* the run of c in X is over: the providers of a, b and c were called, and
\* the records and the events are those of a, b and c in this order
C31_Witness ==
  \E r \in Runs :
    /\ runRoots[r] = <<"c">> /\ Quiet
    /\ \A n \in {"a", "b", "c"} : invoked[r][n] = 1
    /\ timings[r] = <<Timing("a", "X"), Timing("b", "X"), Timing("c", "X")>>
    /\ [i \in 1..3 |-> events[Len(events) - 3 + i].n] = <<"a", "b", "c">>
    /\ \A i \in 1..3 : events[Len(events) - 3 + i].type = "successRun"
\* --------------------------------------------------- dispose once per start
\* The calls of shutdown() of n whose promise settled with the outcomes sts
ShutdownsWith(n, sts) ==
  {o \in 1..nops : CallOf(o, n) /\ op[o].to = SHUTDOWN
                     /\ opState[o] # "pending" /\ work[o][n].st \in sts}

\* Every call of shutdown() of n made so far is over
ShutdownsOver(n) ==
  /\ Quiet /\ nops > 0
  /\ \A o \in 1..nops : CallOf(o, n) /\ op[o].to = SHUTDOWN /\ opState[o] # "pending"

\* C32 as stated: of the calls of shutdown() of a started Resource that no
\* context has, whether one follows the other or they overlap, one resolves
\* true and the others false, and the dispose hook is called once in all
C32_DisposeOnceStated ==
  /\ disposed["a"] <= 1
  /\ Cardinality(ShutdownsWith("a", {"true"})) <= 1
  /\ ShutdownsOver("a") =>
       /\ disposed["a"] = 1
       /\ Cardinality(ShutdownsWith("a", {"true"})) = 1
       /\ Cardinality(ShutdownsWith("a", {"false"})) = nops - 1

\* C32, amended: the dispose hook is called once in all; one call has the
\* outcome of the hook, it resolves true or, when the hook fails, rejects, and
\* the others resolve false
C32_DisposeOnce ==
  /\ disposed["a"] <= 1
  /\ Cardinality(ShutdownsWith("a", {"true", "err"})) <= 1
  /\ ShutdownsOver("a") =>
       /\ disposed["a"] = 1
       /\ Cardinality(ShutdownsWith("a", {"true", "err"})) = 1
       /\ Cardinality(ShutdownsWith("a", {"false"})) = nops - 1
       /\ \A o \in ShutdownsWith("a", {"true", "false"}) : opState[o] = "resolved"
       /\ \A o \in ShutdownsWith("a", {"err"}) : opState[o] = "rejected"

\* two calls of shutdown() made in one turn while the provider was running:
\* the first resolved true after the hook was called, the second false
C32_Witness ==
  /\ ShutdownsOver("a") /\ nops = 2
  /\ op[1].after = 1 /\ work[1]["a"].running = {1}
  /\ change[2]["a"] # "none"
  /\ work[1]["a"].st = "true" /\ work[2]["a"].st = "false"
  /\ disposed["a"] = 1 /\ status["a"] = SHUTDOWN
\* ------------------------------------------------------ memo and failure
\* The catch of getValue of the call made by run r for the Resource n is
\* about to run
Catching(r, n) ==
  /\ queue # <<>> /\ Head(queue).k = "Catch"
  /\ Head(queue).i = r /\ Head(queue).n = n
  /\ IsResource(n)

\* C33: the catch of getValue clears memo only when memo is still the promise
\* of the call that failed: a failure that comes after a reset() does not
\* clear the memo set after the reset, so that the call that memo stands for,
\* when its provider is running or has returned, stays in memo until the
\* next shutdown() or reset()
C33_MemoTracksLive ==
  [][\A r \in Runs, n \in Nodes :
       Catching(r, n) /\ memo[n] # r => memo'[n] = memo[n]]_vars
\* ------------------------------------------------ provider and teardown
\* The provider of n called by some run is running
InFlightNow(n) == \E r \in Runs : output[r][n] = "running"

\* The calls of shutdown() of n that have called status.change, the status
\* not being set yet
ShuttingDown(n) ==
  {o \in Ops : op[o].to = SHUTDOWN /\ change[o][n] \in {"get", "cb"}}

\* C34: the dispose hook of a node is not called, and is not running, while
\* a call of the provider of the node is running; and the provider is not
\* called between the call of status.change by a shutdown(), where the set of
\* the calls in flight is read, and the setting of the status, unless the call
\* is one of that set
C34_NoProviderAcrossTeardown ==
  /\ [](\A o \in Ops, n \in Nodes :
          work[o][n].st = "dispose" => ~InFlightNow(n))
  /\ [][\A n \in Nodes :
          /\ disposed'[n] > disposed[n] => ~InFlightNow(n)
          /\ \A r \in Runs, o \in ShuttingDown(n) :
               invoked'[r][n] > invoked[r][n] => r \in work[o][n].running]_vars
\* ----------------------------------------------- reset and other contexts
\* The call o acts on n: it is a call on n, or on a context that has n
ActsOn(o, n) ==
  \/ CallOf(o, n)
  \/ op[o].type = "context" /\ n \in memberAtCall[o]

\* n was started when o was called: its provider had returned a value to a
\* run, and no call before o has cleared the memo
StartedAt(o, n) ==
  /\ \E r \in 1..op[o].after : promise[r][n].st = "ok"
  /\ \A x \in 1..(o - 1) : work[x][n].st \in {"none", "false"}

\* n was run in the context c before o was called
HeldAt(o, n, c) ==
  \E r \in 1..op[o].after : runCtx[r] = c /\ n \in VisitedBy(r)

\* C35: reset() of a started Resource, called on the node or by reset() of
\* the context X, clears the memo and calls the dispose hook also when the
\* context Y has the node; Y still has the node afterwards and the status of
\* the node is READY.  shutdown() in the same state does nothing.
C35_ResetNotGuarded ==
  \A o \in Ops, n \in Nodes :
    (/\ ActsOn(o, n) /\ Over(o) /\ IsResource(n)
     /\ StartedAt(o, n) /\ HeldAt(o, n, "Y"))
      => /\ "Y" \in contextItems[n] /\ n \in Range(startedDependencies["Y"])
         /\ op[o].to = READY =>
              /\ work[o][n].st \in {"true", "err"}
              /\ disposed[n] = 1 /\ memo[n] = 0
              /\ (\A x \in Ops : x > o => work[x][n].st = "none")
                   => status[n] = READY
         /\ op[o].to = SHUTDOWN =>
              /\ work[o][n].st = "false" /\ change[o][n] = "none"
              /\ (\A x \in 1..nops : op[x].to = SHUTDOWN)
                   => disposed[n] = 0 /\ memo[n] # 0

\* ------------------------------------------- members that are dropped
\* C36: a node that Context.shutdown() or Context.reset() removes from the
\* context has its shutdown() or reset() called: when the call is over, also
\* when its promise rejected, a node that was a member at the call and whose
\* shutdown() or reset() was not called is still a member, and the context is
\* still among its context items
C36_NoMemberDropped ==
  \A o \in Ops :
    (/\ op[o].type = "context" /\ Over(o)
     /\ o = nops /\ op[o].after = nruns)
      => \A n \in memberAtCall[o] :
           work[o][n].st = "none" =>
             /\ n \in Range(startedDependencies[op[o].c])
             /\ op[o].c \in contextItems[n]
\* ------------------------------------------------------ the cache of a run
\* The nodes that run r gets to from its roots without finding them in the
\* params it was given
ReachedFrom(r) ==
  {n \in Range(runRoots[r]) \cup UNION {Below(x) : x \in Range(runRoots[r]) \cap Nodes} :
     n \in Nodes /\ ~Mocked(r, n)}

\* The keys that the params of run r have after the run: a Map is the _cache
\* of the run, an array or an object is copied by paramsToMap
ParamsAfter(r) ==
  IF runParams[r].form \in {"Map", "SameMap"}
  THEN {id \in Ids : cache[r][id].st # "absent"}
  ELSE runParams[r].keys

\* Run r was given the Map that the run before it was given
GivenSameMap(r) == runParams[r].form = "SameMap"

\* Run r called the provider of each Dependency in ns of which it has the
\* value
CalledAll(r, ns) ==
  \A n \in ns :
    Quiet /\ ~IsResource(n) /\ cache[r][n].st = "ok" => invoked[r][n] = 1

\* C37 as stated: a run does not find in its cache the results of the run
\* before it, whatever params it is given, also the Map given to the run
\* before: it calls the provider of each Dependency it gets to, it has an
\* execution id of its own, and it leaves no result in params
C37_CachePerRunStated ==
  \A r \in 1..nruns :
    /\ CalledAll(r, ReachedFrom(r))
    /\ r > 1 => executionId[r] # executionId[r - 1]
    /\ Quiet => ParamsAfter(r) \cap Nodes \subseteq runParams[r].keys

\* C37, amended: a run given an object, an array of pairs or a Map not given
\* to a run before has a cache and an execution id of its own and calls the
\* provider of each Dependency it gets to; an object or an array is left as
\* it was.  A Map is the cache of the run: the results stay in it, and a run
\* given the same Map again has the execution id of the run before, finds the
\* results of the run before and does not call the providers of their nodes
\* or make timing records for them; it calls the providers of the other
\* nodes it gets to.
C37_CachePerMap ==
  \A r \in 1..nruns :
    IF ~GivenSameMap(r)
    THEN /\ executionId[r] = RandomUUID(r)
         /\ CalledAll(r, ReachedFrom(r))
         /\ (Quiet /\ runParams[r].form # "Map")
              => ParamsAfter(r) \cap Nodes \subseteq runParams[r].keys
         /\ (Quiet /\ runParams[r].form = "Map")
              => ReachedFrom(r) \subseteq ParamsAfter(r)
    ELSE /\ executionId[r] = executionId[r - 1]
         /\ \A n \in Nodes :
              cache[r - 1][n].st # "absent" =>
                /\ invoked[r][n] = 0
                /\ cache[r][n] = cache[r - 1][n]
                /\ TimingsOf(r, n) = {}
         /\ CalledAll(r, {n \in ReachedFrom(r) : cache[r - 1][n].st = "absent"})

\* b was run with a Map, then c with the same Map: the second run did not
\* call the providers of a and b again, called the provider of c, has the
\* execution id of the first run, and its timings have the record of c only
C37_Witness ==
  /\ nruns >= 2 /\ Quiet
  /\ runParams[1] = [form |-> "Map", keys |-> {}] /\ GivenSameMap(2)
  /\ runRoots[1] = <<"b">> /\ runRoots[2] = <<"c">>
  /\ ~IsResource("a") /\ ~IsResource("c")
  /\ invoked[1]["a"] = 1 /\ invoked[1]["b"] = 1
  /\ invoked[2]["a"] = 0 /\ invoked[2]["b"] = 0 /\ invoked[2]["c"] = 1
  /\ cache[2]["c"].st = "ok" /\ cache[2]["b"] = cache[1]["b"]
  /\ executionId[2] = RandomUUID(1)
  /\ timings[2] = <<Timing("c", "X")>>
\* ------------------------------------------------ dispose and the start
\* allSettled of the call o on the Resource n has resolved: stopFunc is the
\* next thing called
AboutToDispose(o, n) ==
  /\ queue # <<>> /\ Head(queue).k = "Drained"
  /\ Head(queue).i = o /\ Head(queue).n = n
  /\ IsResource(n)

\* The runs in which the provider of n has returned a value, started after
\* each of the calls before o that changed the status of n
StartedSince(o, n) ==
  {r \in 1..nruns :
     /\ output[r][n] = "ok"
     /\ \A x \in 1..(o - 1) : change[x][n] # "none" => op[x].after < r}

\* C38: shutdown() or reset() calls the dispose hook of a Resource only when
\* a call of its provider has returned a value since the last change of its
\* status
C38_DisposeAfterStart ==
  \A o \in Ops, n \in Nodes :
    AboutToDispose(o, n) => StartedSince(o, n) # {}
\* ------------------------------------------------ the end of a teardown
\* The calls of shutdown() and reset() of a context
ContextCalls == {o \in Ops : op[o].type = "context"}

\* The promise of the call o has settled
Settles(o) == opState[o] \in {"resolved", "rejected"}

\* C39: when no run adds a node to the context after the call, and the
\* providers and dispose hooks that are running return, the promise of
\* Context.shutdown() and Context.reset() settles, and at the time it
\* resolves the context has no member
C39_TeardownEnds ==
  /\ <>[](\A o \in ContextCalls : Settles(o))
  /\ [][\A o \in Ops :
          /\ o \in ContextCalls'
          /\ opState[o] # "resolved" /\ opState'[o] = "resolved"
          => startedDependencies'[op'[o].c] = <<>>]_vars

\* shutdown() of the context of a run of c was called while the provider of
\* a was running, it waited for it, called the dispose hooks of c, b and a,
\* and resolved, the context having no member
C39_Witness ==
  \E o \in ContextCalls :
    /\ op[o].after >= 1 /\ runRoots[1] = <<"c">>
    /\ work[o]["a"].running # {}
    /\ \A n \in {"a", "b", "c"} : work[o][n].st \in {"true", "false"}
    /\ opState[o] = "resolved" /\ startedDependencies["X"] = <<>>
\* ------------------------------------------- the status during a change
\* The calls of get() by the user
GetCalls == {o \in 1..nops : op[o].type = "get"}

\* C40: get() does not resolve with "", the status that change() sets until
\* its promise settles, in any order of the calls of get() and change(); so
\* Dependency.getValue and _shutdownOrReset do not go on with that status
C40_NoPlaceholder ==
  /\ \A o \in GetCalls : opState[o] # CHANGING
  /\ \A i \in DOMAIN queue :
       queue[i].k \in {"Got", "GotStatus", "Transition"} => queue[i].x # CHANGING
====
